---- MODULE Spec2Model ----
(***************************************************************************)
(* smol-pg: the connection orchestrator of src/src/connection.rs.          *)
(*                                                                         *)
(* One Connection and its caller.  The transport is the environment: each  *)
(* await on it (connect, send_message, read_message) is one step whose     *)
(* outcome the environment chooses.  Backend messages are modelled after   *)
(* decoding, as the values server::Message::try_from returns.              *)
(***************************************************************************)
EXTENDS Integers, Sequences, FiniteSets, TLC

VARIABLES
    pc,               \* where the caller / the running call is
    call,             \* the call that runs or ran last: none, new, create, query
    calls,            \* number of query calls started on the connection
    stream,           \* Connection.stream, the transport: none, open or broken
    response_buffer,  \* Connection.response_buffer (VecDeque<server::Message>)
    ready_to_query,   \* Connection.ready_to_query
    key_data,         \* Connection.key_data (Option<KeyData>)
    row_description,  \* local of query: Option<RowDescription>
    data_rows,        \* local of query: Vec<DataRow>
    response,         \* local `response` of the read loops: the message read last
    received,         \* messages read_message returned during the current call
    reads,            \* number of messages read from the transport so far
    sent,             \* frames written to the transport and flushed, in order
    heap,             \* Arc allocations: heap[h] is the RowDescription held by handle h
    result,           \* what the last finished call returned to its caller
    wire,             \* the bytes the server has written to the transport, in order
    offset,           \* how many bytes of `wire` read_exact has consumed
    eof,              \* the server has closed its side of the transport
    frames,           \* the frames the server wrote, one entry per frame
    outcomes,         \* what each call of read_message returned, in call order
    looping,          \* the read loop has not returned through `?` yet
    input,            \* the argument an encoder or decoder is applied to
    output            \* what it returned

\* the byte-level view of the transport, and the codec's inputs and outputs
codecVars == <<wire, offset, eof, frames, outcomes, looping, input, output>>

\* the fields of Connection and the locals of its calls
connectionVars == <<pc, call, calls, stream, response_buffer, ready_to_query,
                    key_data, row_description, data_rows, response, received,
                    reads, sent, heap, result>>

vars == <<pc, call, calls, stream, response_buffer, ready_to_query, key_data,
          row_description, data_rows, response, received, reads, sent, heap, result,
          wire, offset, eof, frames, outcomes, looping, input, output>>

----------------------------------------------------------------------------
(* Bounds of the model *)

\* the server sends at most this many messages that end up in the response buffer
MaxBuffered == 4
\* the server sends at most this many messages on the connection
MaxReads == 5
\* query is called at most this many times on the connection
MaxCalls == 2

----------------------------------------------------------------------------
(* Values *)

None == [some |-> FALSE]
Some(v) == [some |-> TRUE, value |-> v]

FieldDescription(name, format_code) == [name |-> name, format_code |-> format_code]

\* the RowDescription values the server may send
RowDescriptionValues ==
    { << FieldDescription("a", "Text") >>,
      << FieldDescription("a", "Text"), FieldDescription("b", "Binary") >> }

\* the DataRow field lists the server may send (Data is a byte vector)
DataRowValues == { << <<49>> >>, << <<50>>, <<>> >> }

ReadyForQuery == [type |-> "ReadyForQuery"]
EmptyQuery == [type |-> "EmptyQuery"]
Authentication == [type |-> "Authentication", auth |-> "Ok"]
ErrorMessage == [type |-> "Error", fields |-> [C |-> "42P01", S |-> "ERROR"]]
Notice == [type |-> "Notice", fields |-> [S |-> "WARNING"]]
ParameterStatus == [type |-> "ParameterStatus", name |-> "server_version", value |-> "16"]
KeyData == [type |-> "KeyData", process_id |-> 7, secret_key |-> 9]
CommandComplete == [type |-> "CommandComplete", tag |-> "SELECT 1"]
RowDescription(fields) == [type |-> "RowDescription", fields |-> fields]
DataRow(fields) == [type |-> "DataRow", fields |-> fields]

\* server::Message: every value read_message can decode
Message ==
    { ReadyForQuery, EmptyQuery, Authentication, ErrorMessage, Notice,
      ParameterStatus, KeyData, CommandComplete }
    \cup { RowDescription(f) : f \in RowDescriptionValues }
    \cup { DataRow(f) : f \in DataRowValues }

\* The server's side of the protocol, start-up phase: the messages a backend
\* sends between Startup and the first ReadyForQuery
HandshakeMessage ==
    { Authentication, ParameterStatus, KeyData, Notice, ErrorMessage, ReadyForQuery }

\* The server's side of the protocol, simple-query phase: the messages a backend
\* sends after a Query message
QueryMessage ==
    { CommandComplete, ErrorMessage, EmptyQuery, Notice, ParameterStatus, ReadyForQuery }
    \cup { RowDescription(f) : f \in RowDescriptionValues }
    \cup { DataRow(f) : f \in DataRowValues }

\* what read_message returns when the server sends one of `messages`:
\* Ok(message), a CodecError for a frame that does not decode, or a NetworkError
\* when read_exact fails.  A transport that has failed once keeps failing.
ReadMessage(transport, messages) ==
    IF transport = "open"
    THEN { [ok |-> TRUE, message |-> m] : m \in messages }
         \cup { [ok |-> FALSE, error |-> e] : e \in {"NetworkError", "CodecError"} }
    ELSE { [ok |-> FALSE, error |-> "NetworkError"] }

\* what send_message returns: write_all and flush succeed, or one of them fails
SendMessage(transport) ==
    IF transport = "open" THEN { "Ok", "NetworkError" } ELSE { "NetworkError" }

\* the transport after an operation on it that ended with `error`
AfterError(transport, error) ==
    IF error = "NetworkError" THEN "broken" ELSE transport

\* the frame goes to the transport twice
WriteAndFlushTwice(written, message) == Append(Append(written, message), message)

\* send_message when write_all and flush succeed: the frame of the message is
\* in the transport, after everything written before
WriteAndFlush(written, message) == Append(written, message)

NoResult == [kind |-> "None"]
Ok(value) == [kind |-> "Ok", value |-> value]
Err(error) == [kind |-> "Err", error |-> error]
Panic == [kind |-> "Panic"]

NoMessage == [type |-> "None"]

\* struct Row
Row(metadata, fields) == [metadata |-> metadata, fields |-> fields]

----------------------------------------------------------------------------
(* Pure parts of create and query *)

\* a buffer that takes new messages at its head
PushFront(buffer, message) == <<message>> \o buffer

\* VecDeque::push_back
PushBack(buffer, message) == Append(buffer, message)

\* a missing description replaced by an empty one (Option::unwrap_or_default)
UnwrapOrDefault(description) ==
    IF description.some THEN [kind |-> "Ok", value |-> description.value]
    ELSE [kind |-> "Ok", value |-> <<>>]

\* Option::ok_or(ProtocolError::MissingRowDescription)
OkOr(description) ==
    IF description.some THEN Ok(description.value) ELSE Err("MissingRowDescription")

\* rows that each hold a copy of the description of their own
BuildRowsPerRowCopy(handle, rows) ==
    [i \in 1..Len(rows) |-> Row(handle + i - 1, rows[i].fields)]

\* data_rows.into_iter().map(|data_row| Row { metadata: row_description.clone(), .. })
BuildRows(handle, rows) ==
    [i \in 1..Len(rows) |-> Row(handle, rows[i].fields)]

\* a handshake loop that also ends on Authentication
CreateBreaksOnAuthentication(message) ==
    message.type \in {"ReadyForQuery", "Authentication"}

\* the arms of the match in create's loop
CreateBreaks(message) == message.type = "ReadyForQuery"

\* the arms of the match in query's loop
QueryArm(message) ==
    CASE message.type = "CommandComplete" -> "break"
      [] message.type = "RowDescription" -> "set_description"
      [] message.type = "DataRow" -> "push_row"
      [] message.type = "Error" -> "panic"
      [] OTHER -> "buffer"

----------------------------------------------------------------------------
\* no argument chosen, nothing returned
NoInput == [kind |-> "None"]
NoOutput == [kind |-> "None"]

\* the connection before any call
ConnectionInit ==
    /\ pc = "start"
    /\ call = "none"
    /\ calls = 0
    /\ stream = "none"
    /\ response_buffer = <<>>
    /\ ready_to_query = FALSE
    /\ key_data = None
    /\ row_description = None
    /\ data_rows = <<>>
    /\ response = NoMessage
    /\ received = <<>>
    /\ reads = 0
    /\ sent = <<>>
    /\ heap = <<>>
    /\ result = NoResult

\* the transport before the server has written anything
TransportInit ==
    /\ wire = <<>>
    /\ offset = 0
    /\ eof = FALSE
    /\ frames = <<>>
    /\ outcomes = <<>>
    /\ looping = TRUE

Init ==
    /\ ConnectionInit
    /\ TransportInit
    /\ input = NoInput
    /\ output = NoOutput

\* Connection::create up to Self::new: TcpStream::connect, then the fresh connection
CreateConnect ==
    /\ pc = "start"
    /\ call' = "create"
    /\ \E connected \in BOOLEAN :
         IF connected
         THEN /\ pc' = "create_send"
              /\ stream' = "open"
              /\ result' = NoResult
         ELSE /\ pc' = "create_failed"
              /\ stream' = stream
              /\ result' = Err("NetworkError")
    /\ response_buffer' = <<>>
    /\ ready_to_query' = FALSE
    /\ key_data' = None
    /\ UNCHANGED <<calls, row_description, data_rows, response, received, reads, sent, heap>>
    /\ UNCHANGED codecVars

\* Connection::create: conn.send_message(&startup_message).await?
CreateSend ==
    /\ pc = "create_send"
    /\ \E outcome \in SendMessage(stream) :
         IF outcome = "Ok"
         THEN /\ sent' = WriteAndFlush(sent, "Startup")
              /\ stream' = stream
              /\ pc' = "create_loop"
              /\ result' = NoResult
         ELSE /\ sent' = sent
              /\ stream' = AfterError(stream, outcome)
              /\ pc' = "create_failed"
              /\ result' = Err(outcome)
    /\ UNCHANGED <<call, calls, response_buffer, ready_to_query, key_data,
                   row_description, data_rows, response, received, reads, heap>>
    /\ UNCHANGED codecVars

\* Connection::create: one turn of the loop, and Ok(conn) after the break, for
\* one of the outcomes read_message can have
CreateLoop(returns) ==
    /\ pc = "create_loop"
    /\ \E read \in returns :
         IF ~read.ok
         THEN /\ pc' = "create_failed"
              /\ stream' = AfterError(stream, read.error)
              /\ result' = Err(read.error)
              /\ UNCHANGED <<response, received, reads, response_buffer, ready_to_query>>
         ELSE /\ response' = read.message
              /\ stream' = stream
              /\ reads' = reads + 1
              /\ received' = Append(received, read.message)
              /\ IF CreateBreaks(read.message)
                 THEN /\ ready_to_query' = TRUE
                      /\ response_buffer' = response_buffer
                      /\ pc' = "idle"
                      /\ result' = Ok("Connection")
                 ELSE /\ Len(response_buffer) < MaxBuffered
                      /\ response_buffer' = PushBack(response_buffer, read.message)
                      /\ ready_to_query' = ready_to_query
                      /\ pc' = "create_loop"
                      /\ result' = NoResult
    /\ UNCHANGED <<call, calls, key_data, row_description, data_rows, sent, heap>>
    /\ UNCHANGED codecVars

\* a turn of create's loop with a server that may send any start-up message
CreateRead ==
    /\ reads < MaxReads
    /\ CreateLoop(ReadMessage(stream, HandshakeMessage))

\* Connection::new called by the user on a connected stream, without a handshake
New ==
    /\ pc = "start"
    /\ call' = "new"
    /\ pc' = "idle"
    /\ stream' = "open"
    /\ response_buffer' = <<>>
    /\ ready_to_query' = FALSE
    /\ key_data' = None
    /\ result' = Ok("Connection")
    /\ UNCHANGED <<calls, row_description, data_rows, response, received, reads, sent, heap>>
    /\ UNCHANGED codecVars

\* Connection::query up to the loop: the Query message is sent, the locals are set.
\* The caller has dropped the rows of the query before, and with them their
\* RowDescription.
QuerySend ==
    /\ pc = "idle"
    /\ calls < MaxCalls
    /\ call' = "query"
    /\ calls' = calls + 1
    /\ received' = <<>>
    /\ response' = NoMessage
    /\ \E outcome \in SendMessage(stream) :
         IF outcome = "Ok"
         THEN /\ sent' = WriteAndFlush(sent, "Query")
              /\ stream' = stream
              /\ pc' = "query_loop"
              /\ result' = NoResult
         ELSE /\ sent' = sent
              /\ stream' = AfterError(stream, outcome)
              /\ pc' = "idle"
              /\ result' = Err(outcome)
    /\ row_description' = None
    /\ data_rows' = <<>>
    /\ heap' = <<>>
    /\ UNCHANGED <<response_buffer, ready_to_query, key_data, reads>>
    /\ UNCHANGED codecVars

\* Connection::query after the break: the rows are built and returned
QueryReturn(description, rows) ==
    LET checked == OkOr(description) IN
    IF checked.kind = "Err"
    THEN /\ heap' = heap
         /\ result' = checked
    ELSE /\ heap' = Append(heap, checked.value)
         /\ result' = Ok(BuildRows(Len(heap) + 1, rows))

\* Connection::query: one turn of the loop, and the return after the break, for
\* one of the outcomes read_message can have
QueryLoop(returns) ==
    /\ pc = "query_loop"
    /\ \E read \in returns :
         IF ~read.ok
         THEN /\ pc' = "idle"
              /\ stream' = AfterError(stream, read.error)
              /\ result' = Err(read.error)
              /\ UNCHANGED <<response, received, reads, response_buffer,
                             row_description, data_rows, heap>>
         ELSE /\ response' = read.message
              /\ stream' = stream
              /\ reads' = reads + 1
              /\ received' = Append(received, read.message)
              /\ LET arm == QueryArm(read.message) IN
                 CASE arm = "break" ->
                        /\ QueryReturn(row_description, data_rows)
                        /\ pc' = "idle"
                        /\ UNCHANGED <<response_buffer, row_description, data_rows>>
                   [] arm = "set_description" ->
                        /\ row_description' = Some(read.message.fields)
                        /\ pc' = "query_loop"
                        /\ result' = NoResult
                        /\ UNCHANGED <<response_buffer, data_rows, heap>>
                   [] arm = "push_row" ->
                        /\ data_rows' = Append(data_rows, read.message)
                        /\ pc' = "query_loop"
                        /\ result' = NoResult
                        /\ UNCHANGED <<response_buffer, row_description, heap>>
                   [] arm = "panic" ->
                        /\ pc' = "panicked"
                        /\ result' = Panic
                        /\ UNCHANGED <<response_buffer, row_description, data_rows, heap>>
                   [] OTHER ->
                        /\ Len(response_buffer) < MaxBuffered
                        /\ response_buffer' = PushBack(response_buffer, read.message)
                        /\ pc' = "query_loop"
                        /\ result' = NoResult
                        /\ UNCHANGED <<row_description, data_rows, heap>>
    /\ UNCHANGED <<call, calls, ready_to_query, key_data, sent>>
    /\ UNCHANGED codecVars

\* a turn of query's loop with a server that may send any message of a response
QueryRead ==
    /\ reads < MaxReads
    /\ QueryLoop(ReadMessage(stream, QueryMessage))

Next ==
    \/ CreateConnect
    \/ CreateSend
    \/ CreateRead
    \/ New
    \/ QuerySend
    \/ QueryRead

Spec == Init /\ [][Next]_vars

----------------------------------------------------------------------------
(* Bytes and integers *)

\* i32::from_be_bytes: two's complement, most significant byte first
i32_from_be_bytes(bytes) ==
    (IF bytes[1] >= 128 THEN bytes[1] - 256 ELSE bytes[1]) * 16777216
        + bytes[2] * 65536 + bytes[3] * 256 + bytes[4]

\* i16::from_be_bytes
i16_from_be_bytes(bytes) ==
    (IF bytes[1] >= 128 THEN bytes[1] - 256 ELSE bytes[1]) * 256 + bytes[2]

\* i32::to_be_bytes
i32_to_be_bytes(value) ==
    << (value \div 16777216) % 256, (value \div 65536) % 256,
       (value \div 256) % 256, value % 256 >>

\* i16::to_be_bytes
i16_to_be_bytes(value) == << (value \div 256) % 256, value % 256 >>

\* a continuation byte of a UTF-8 character, within the given range
Continues(bytes, i, low, high) ==
    i <= Len(bytes) /\ bytes[i] >= low /\ bytes[i] <= high

\* bytes[i..] is a sequence of well-formed UTF-8 characters: one byte below
\* 0x80, or a lead byte C2..F4 with its continuation bytes (no overlong forms,
\* no surrogates, nothing above U+10FFFF)
RECURSIVE IsUtf8From(_, _)
IsUtf8From(bytes, i) ==
    IF i > Len(bytes) THEN TRUE
    ELSE IF bytes[i] < 128 THEN IsUtf8From(bytes, i + 1)
    ELSE IF bytes[i] >= 194 /\ bytes[i] <= 223
         THEN Continues(bytes, i + 1, 128, 191) /\ IsUtf8From(bytes, i + 2)
    ELSE IF bytes[i] >= 224 /\ bytes[i] <= 239
         THEN /\ Continues(bytes, i + 1,
                           IF bytes[i] = 224 THEN 160 ELSE 128,
                           IF bytes[i] = 237 THEN 159 ELSE 191)
              /\ Continues(bytes, i + 2, 128, 191)
              /\ IsUtf8From(bytes, i + 3)
    ELSE IF bytes[i] >= 240 /\ bytes[i] <= 244
         THEN /\ Continues(bytes, i + 1,
                           IF bytes[i] = 240 THEN 144 ELSE 128,
                           IF bytes[i] = 244 THEN 143 ELSE 191)
              /\ Continues(bytes, i + 2, 128, 191)
              /\ Continues(bytes, i + 3, 128, 191)
              /\ IsUtf8From(bytes, i + 4)
    ELSE FALSE

\* std::str::from_utf8 succeeds
IsUtf8(bytes) == IsUtf8From(bytes, 1)

----------------------------------------------------------------------------
(* util::Reader: a buffer and a position in it (counted from 0) *)

Reader_new(buffer) == [buffer |-> buffer, position |-> 0]

\* Ok(value), with the reader as the call leaves it
Done(value, reader) == [ok |-> TRUE, value |-> value, reader |-> reader]
\* Err(error), with the reader as the call leaves it
Fail(error, reader) == [ok |-> FALSE, error |-> error, reader |-> reader]

Advance(reader, n) == [reader EXCEPT !.position = @ + n]

\* self.buffer[from..to] (Rust's half-open range, counted from 0)
Slice(buffer, from, to) == SubSeq(buffer, from + 1, to)

\* the position is moved first and checked afterwards
Reader_skip_unchecked(reader, n) ==
    IF reader.position + n > Len(reader.buffer)
    THEN Fail("UnexpectedEof", Advance(reader, n))
    ELSE Done(<<>>, Advance(reader, n))

Reader_skip(reader, n) ==
    IF reader.position + n > Len(reader.buffer)
    THEN Fail("UnexpectedEof", reader)
    ELSE Done(<<>>, Advance(reader, n))

Reader_ensure_remaining(reader, n) ==
    IF reader.position + n > Len(reader.buffer)
    THEN Fail("UnexpectedEof", reader)
    ELSE Done(<<>>, reader)

Reader_ensure_remaining_exact(reader, n) ==
    IF reader.position + n # Len(reader.buffer)
    THEN Fail("UnexpectedEof", reader)
    ELSE Done(<<>>, reader)

\* peek_bytes::<N>
Reader_peek_bytes(reader, n) ==
    IF reader.position + n > Len(reader.buffer)
    THEN Fail("UnexpectedEof", reader)
    ELSE Done(Slice(reader.buffer, reader.position, reader.position + n), reader)

Reader_peek_u8(reader) ==
    IF reader.position + 1 > Len(reader.buffer)
    THEN Fail("UnexpectedEof", reader)
    ELSE Done(reader.buffer[reader.position + 1], reader)

\* if self.peek_u8()? != value { return Err(DecodeError::UnexpectedEof) }
Reader_expect_u8(reader, value) ==
    LET peeked == Reader_peek_u8(reader) IN
    IF ~peeked.ok THEN peeked
    ELSE IF peeked.value # value THEN Fail("UnexpectedEof", reader)
    ELSE Done(<<>>, reader)

Reader_read_u8(reader) ==
    IF reader.position + 1 > Len(reader.buffer)
    THEN Fail("UnexpectedEof", reader)
    ELSE Done(reader.buffer[reader.position + 1], Advance(reader, 1))

Reader_read_bytes(reader, n) ==
    IF reader.position + n > Len(reader.buffer)
    THEN Fail("UnexpectedEof", reader)
    ELSE Done(Slice(reader.buffer, reader.position, reader.position + n),
              Advance(reader, n))

\* read_bytes_const::<N>
Reader_read_bytes_const(reader, n) ==
    IF reader.position + n > Len(reader.buffer)
    THEN Fail("UnexpectedEof", reader)
    ELSE Done(Slice(reader.buffer, reader.position, reader.position + n),
              Advance(reader, n))

Reader_read_remaining_bytes(reader) ==
    Done(Slice(reader.buffer, reader.position, Len(reader.buffer)),
         [reader EXCEPT !.position = Len(reader.buffer)])

\* the check, the slice, position += length, ensure_remaining_exact(0)?
Reader_read_remaining_bytes_exact(reader, length) ==
    IF reader.position + length # Len(reader.buffer)
    THEN Fail("UnexpectedEof", reader)
    ELSE LET ensured == Reader_ensure_remaining_exact(Advance(reader, length), 0) IN
         IF ~ensured.ok THEN ensured
         ELSE Done(Slice(reader.buffer, reader.position, reader.position + length),
                   ensured.reader)

Reader_read_i16(reader) ==
    LET bytes == Reader_read_bytes_const(reader, 2) IN
    IF bytes.ok THEN Done(i16_from_be_bytes(bytes.value), bytes.reader) ELSE bytes

Reader_peek_i32(reader) ==
    LET bytes == Reader_peek_bytes(reader, 4) IN
    IF bytes.ok THEN Done(i32_from_be_bytes(bytes.value), bytes.reader) ELSE bytes

Reader_read_i32(reader) ==
    LET bytes == Reader_read_bytes_const(reader, 4) IN
    IF bytes.ok THEN Done(i32_from_be_bytes(bytes.value), bytes.reader) ELSE bytes

\* if self.peek_i32()? != value { return Err(DecodeError::UnexpectedEof) }
Reader_expect_i32(reader, value) ==
    LET peeked == Reader_peek_i32(reader) IN
    IF ~peeked.ok THEN peeked
    ELSE IF peeked.value # value THEN Fail("UnexpectedEof", reader)
    ELSE Done(<<>>, reader)

\* the absolute position of the first zero byte at or after the position, or -1
NullPosition(reader) ==
    LET zeros == { i \in reader.position..(Len(reader.buffer) - 1) :
                     reader.buffer[i + 1] = 0 }
    IN IF zeros = {} THEN -1
       ELSE CHOOSE i \in zeros : \A j \in zeros : i <= j

Reader_read_cstring(reader) ==
    LET null_position == NullPosition(reader) IN
    IF null_position = -1
    THEN Fail("UnexpectedEof", reader)
    ELSE LET string == Slice(reader.buffer, reader.position, null_position) IN
         IF ~IsUtf8(string)
         THEN Fail("UnexpectedEof", reader)
         ELSE Done(string, Advance(reader, Len(string) + 1))

\* self.position = self.position.saturating_sub(n)
Reader_backtrack(reader, n) ==
    Done(<<>>, [reader EXCEPT !.position = IF @ < n THEN 0 ELSE @ - n])

Reader_finish(reader) ==
    IF reader.position # Len(reader.buffer)
    THEN Fail("UnexpectedEof", reader)
    ELSE Done(<<>>, reader)

----------------------------------------------------------------------------
(* protocol::message::server: decoding a received frame *)

\* HashMap::new()
EmptyMap == [k \in {} |-> <<>>]
\* HashMap::insert: a later value for the same key replaces the earlier one
Insert(map, key, value) == (key :> value) @@ map

\* a decoded struct wrapped into its Message variant
Variant(type, decoded) ==
    IF decoded.ok
    THEN Done([type |-> type] @@ decoded.value, decoded.reader)
    ELSE decoded

\* the loop of Error::try_from and of Notice::try_from:
\* while reader.peek_u8()? != 0 { read_u8()?, read_cstring()?, insert }
RECURSIVE ReadFields(_, _)
ReadFields(reader, fields) ==
    LET next == Reader_peek_u8(reader) IN
    IF ~next.ok THEN next
    ELSE IF next.value = 0 THEN Done(fields, reader)
    ELSE LET field == Reader_read_u8(reader) IN
         IF ~field.ok THEN field
         ELSE LET value == Reader_read_cstring(field.reader) IN
              IF ~value.ok THEN value
              ELSE ReadFields(value.reader, Insert(fields, field.value, value.value))

\* the loop of the Sasl arm: while reader.peek_u8()? != 0 { push(read_cstring()?) }
RECURSIVE ReadMechanisms(_, _)
ReadMechanisms(reader, mechanisms) ==
    LET next == Reader_peek_u8(reader) IN
    IF ~next.ok THEN next
    ELSE IF next.value = 0 THEN Done(mechanisms, reader)
    ELSE LET name == Reader_read_cstring(reader) IN
         IF ~name.ok THEN name
         ELSE ReadMechanisms(name.reader, Append(mechanisms, name.value))

\* Ok whatever follows the authType
AuthenticationOkUnchecked(reader) == Done([auth |-> "Ok"], reader)

\* the arm `0 =>`: reader.finish()?; Ok(Authentication::Ok)
AuthenticationOk(reader) ==
    LET finished == Reader_finish(reader) IN
    IF finished.ok THEN Done([auth |-> "Ok"], reader) ELSE finished

\* the match on the authentication response type
AuthenticationArm(message_type, reader) ==
    CASE message_type = 0 -> AuthenticationOk(reader)
      [] message_type = 10 ->
           LET mechanisms == ReadMechanisms(reader, <<>>) IN
           IF mechanisms.ok
           THEN Done([auth |-> "Sasl", mechanisms |-> mechanisms.value],
                     mechanisms.reader)
           ELSE mechanisms
      [] message_type = 11 ->
           LET data == Reader_read_remaining_bytes(reader) IN
           Done([auth |-> "SaslContinue", data |-> data.value], data.reader)
      [] message_type = 12 ->
           LET data == Reader_read_remaining_bytes(reader) IN
           Done([auth |-> "SaslFinal", data |-> data.value], data.reader)
      [] OTHER -> Fail("UnexpectedValue", reader)

Authentication_try_from(reader) ==
    LET length == Reader_skip(reader, 4) IN
    IF ~length.ok THEN length
    ELSE LET message_type == Reader_read_i32(length.reader) IN
         IF ~message_type.ok THEN message_type
         ELSE AuthenticationArm(message_type.value, message_type.reader)

Error_try_from(reader) ==
    LET length == Reader_skip(reader, 4) IN
    IF ~length.ok THEN length
    ELSE LET fields == ReadFields(length.reader, EmptyMap) IN
         IF fields.ok THEN Done([fields |-> fields.value], fields.reader) ELSE fields

Notice_try_from(reader) ==
    LET length == Reader_skip(reader, 4) IN
    IF ~length.ok THEN length
    ELSE LET fields == ReadFields(length.reader, EmptyMap) IN
         IF fields.ok THEN Done([fields |-> fields.value], fields.reader) ELSE fields

ParameterStatus_try_from(reader) ==
    LET length == Reader_skip(reader, 4) IN
    IF ~length.ok THEN length
    ELSE LET name == Reader_read_cstring(length.reader) IN
         IF ~name.ok THEN name
         ELSE LET value == Reader_read_cstring(name.reader) IN
              IF ~value.ok THEN value
              ELSE Done([name |-> name.value, value |-> value.value], value.reader)

KeyData_try_from(reader) ==
    LET length == Reader_skip(reader, 4) IN
    IF ~length.ok THEN length
    ELSE LET process_id == Reader_read_i32(length.reader) IN
         IF ~process_id.ok THEN process_id
         ELSE LET secret_key == Reader_read_i32(process_id.reader) IN
              IF ~secret_key.ok THEN secret_key
              ELSE Done([process_id |-> process_id.value,
                         secret_key |-> secret_key.value], secret_key.reader)

CommandComplete_try_from(reader) ==
    LET length == Reader_skip(reader, 4) IN
    IF ~length.ok THEN length
    ELSE LET tag == Reader_read_cstring(length.reader) IN
         IF ~tag.ok THEN tag
         ELSE Done([tag |-> tag.value], tag.reader)

\* every format code but 0 is taken for Binary
FormatCodeLenient(format_code, reader) ==
    IF format_code = 0 THEN Done("Text", reader) ELSE Done("Binary", reader)

\* the match on the format code of a field description
FormatCode_from(format_code, reader) ==
    CASE format_code = 0 -> Done("Text", reader)
      [] format_code = 1 -> Done("Binary", reader)
      [] OTHER -> Fail("UnexpectedValue", reader)

\* 0 stands for "none" in table_oid and attribute_number
NoneIfZero(value) == IF value = 0 THEN None ELSE Some(value)

FieldDescription_try_from(reader) ==
    LET name == Reader_read_cstring(reader) IN
    IF ~name.ok THEN name ELSE
    LET table_oid == Reader_read_i32(name.reader) IN
    IF ~table_oid.ok THEN table_oid ELSE
    LET attribute_number == Reader_read_i16(table_oid.reader) IN
    IF ~attribute_number.ok THEN attribute_number ELSE
    LET data_type_oid == Reader_read_i32(attribute_number.reader) IN
    IF ~data_type_oid.ok THEN data_type_oid ELSE
    LET data_type_size == Reader_read_i16(data_type_oid.reader) IN
    IF ~data_type_size.ok THEN data_type_size ELSE
    LET data_type_modifier == Reader_read_i32(data_type_size.reader) IN
    IF ~data_type_modifier.ok THEN data_type_modifier ELSE
    LET format_code == Reader_read_i16(data_type_modifier.reader) IN
    IF ~format_code.ok THEN format_code ELSE
    LET format == FormatCode_from(format_code.value, format_code.reader) IN
    IF ~format.ok THEN format ELSE
    Done([name |-> name.value,
          table_oid |-> NoneIfZero(table_oid.value),
          attribute_number |-> NoneIfZero(attribute_number.value),
          data_type_oid |-> data_type_oid.value,
          data_type_size |-> data_type_size.value,
          data_type_modifier |-> data_type_modifier.value,
          format_code |-> format.value], format.reader)

\* for _ in 0..field_count { fields.push(FieldDescription::try_from(&mut reader)?) }
RECURSIVE ReadFieldDescriptions(_, _, _)
ReadFieldDescriptions(reader, remaining, fields) ==
    IF remaining = 0 THEN Done(fields, reader)
    ELSE LET field == FieldDescription_try_from(reader) IN
         IF ~field.ok THEN field
         ELSE ReadFieldDescriptions(field.reader, remaining - 1,
                                    Append(fields, field.value))

\* -1 is let through
CountIsBelowMinusOne(count) == count < -1

\* the check of a decoded 16-bit count: field_count < 0 is an error
CountIsNegative(count) == count < 0

RowDescription_try_from(reader) ==
    LET length == Reader_skip(reader, 4) IN
    IF ~length.ok THEN length ELSE
    LET field_count == Reader_read_i16(length.reader) IN
    IF ~field_count.ok THEN field_count ELSE
    IF CountIsNegative(field_count.value)
    THEN Fail("UnexpectedValue", field_count.reader)
    ELSE LET fields == ReadFieldDescriptions(field_count.reader,
                                             field_count.value, <<>>) IN
         IF fields.ok THEN Done([fields |-> fields.value], fields.reader) ELSE fields

\* the match on field_size in DataRow::try_from: 1.. => the bytes are read,
\* every other size => Data(Vec::new())
ReadData(field_size, reader) ==
    IF field_size >= 1
    THEN Reader_read_bytes(reader, field_size)
    ELSE Done(<<>>, reader)

\* for _ in 0..n { read_i32()?, then the match on field_size }
RECURSIVE ReadDataFields(_, _, _)
ReadDataFields(reader, remaining, fields) ==
    IF remaining = 0 THEN Done(fields, reader)
    ELSE LET field_size == Reader_read_i32(reader) IN
         IF ~field_size.ok THEN field_size
         ELSE LET data == ReadData(field_size.value, field_size.reader) IN
              IF ~data.ok THEN data
              ELSE ReadDataFields(data.reader, remaining - 1,
                                  Append(fields, data.value))

DataRow_try_from(reader) ==
    LET length == Reader_skip(reader, 4) IN
    IF ~length.ok THEN length ELSE
    LET n == Reader_read_i16(length.reader) IN
    IF ~n.ok THEN n ELSE
    IF CountIsNegative(n.value)
    THEN Fail("UnexpectedValue", n.reader)
    ELSE LET fields == ReadDataFields(n.reader, n.value, <<>>) IN
         IF fields.ok THEN Done([fields |-> fields.value], fields.reader) ELSE fields

\* the type bytes the match knows: Z R E S K I C N T D
MessageTypes == {90, 82, 69, 83, 75, 73, 67, 78, 84, 68}

\* an unknown type byte is passed over as if the frame carried nothing
SkipUnknownMessageType(tag, reader) == Done([type |-> "Unknown"], reader)

\* the `unknown =>` arm of the match on the message type byte
UnknownMessageType(tag, reader) == Fail("UnexpectedValue", reader)

\* the match on the message type byte: the ASCII codes of Z R E S K I C N T D
MessageArm(tag, reader) ==
    CASE tag = 90 -> Done(ReadyForQuery, reader)
      [] tag = 82 -> Variant("Authentication", Authentication_try_from(reader))
      [] tag = 69 -> Variant("Error", Error_try_from(reader))
      [] tag = 83 -> Variant("ParameterStatus", ParameterStatus_try_from(reader))
      [] tag = 75 -> Variant("KeyData", KeyData_try_from(reader))
      [] tag = 73 -> Done(EmptyQuery, reader)
      [] tag = 67 -> Variant("CommandComplete", CommandComplete_try_from(reader))
      [] tag = 78 -> Variant("Notice", Notice_try_from(reader))
      [] tag = 84 -> Variant("RowDescription", RowDescription_try_from(reader))
      [] tag = 68 -> Variant("DataRow", DataRow_try_from(reader))
      [] OTHER -> UnknownMessageType(tag, reader)

\* impl TryFrom<Reader> for Message
Message_try_from(reader) ==
    LET msg_type == Reader_read_u8(reader) IN
    IF ~msg_type.ok THEN msg_type
    ELSE MessageArm(msg_type.value, msg_type.reader)

----------------------------------------------------------------------------
(* Connection::read_message over the bytes of the transport *)

\* const HEADER_LENGTH: the type byte and the four length bytes
HEADER_LENGTH == 5

\* AsyncReadExt::read_exact for n bytes, `from` bytes into what the transport
\* holds: the bytes when they are there, an error when the peer closed before
\* sending them, and otherwise the future stays pending
read_exact(available, from, n, closed) ==
    IF Len(available) - from >= n
    THEN [status |-> "Ok", bytes |-> SubSeq(available, from + 1, from + n)]
    ELSE IF closed THEN [status |-> "Err"] ELSE [status |-> "Pending"]

\* what one call of read_message did: how many bytes it took from the
\* transport, the capacity of the buffer it allocated (None: no buffer), and
\* the message or the error it returned
StillPending == [status |-> "Pending"]
NetworkFailure(consumed, capacity) ==
    [status |-> "NetworkError", consumed |-> consumed, capacity |-> capacity]
CodecFailure(error, consumed, capacity) ==
    [status |-> "CodecError", error |-> error, consumed |-> consumed,
     capacity |-> capacity]
Decoded(message, consumed, capacity) ==
    [status |-> "Ok", message |-> message, consumed |-> consumed,
     capacity |-> capacity]

\* a failed read_exact: pending, or a NetworkError after taking what was left
ShortRead(read, available, capacity) ==
    IF read.status = "Pending" THEN StillPending
    ELSE NetworkFailure(Len(available), capacity)

\* only a negative length is turned away
LengthIsNegative(message_length) == message_length < 0

\* the sanity check on the declared length
LengthIsImplausible(message_length) == message_length < 4

\* the declared length taken to count the type byte as well
LengthWithType(message_length) == message_length

\* let actual_message_length = message_length as usize + 1
ActualMessageLength(message_length) == message_length + 1

\* server::Message::try_from(..).map_err(Error::CodecError)?; Ok(message)
Returned(message, buf, capacity) ==
    IF message.ok
    THEN Decoded(message.value, Len(buf), capacity)
    ELSE CodecFailure(message.error, Len(buf), capacity)

read_message(available, closed) ==
    LET message_type_buf == read_exact(available, 0, 1, closed) IN
    IF message_type_buf.status # "Ok"
    THEN ShortRead(message_type_buf, available, None) ELSE
    LET message_length_buf == read_exact(available, 1, 4, closed) IN
    IF message_length_buf.status # "Ok"
    THEN ShortRead(message_length_buf, available, None) ELSE
    LET message_length == i32_from_be_bytes(message_length_buf.bytes) IN
    IF LengthIsImplausible(message_length)
    THEN CodecFailure("UnexpectedValue", HEADER_LENGTH, None) ELSE
    LET actual_message_length == ActualMessageLength(message_length)
        content == read_exact(available, HEADER_LENGTH,
                              actual_message_length - HEADER_LENGTH, closed)
    IN
    IF content.status # "Ok"
    THEN ShortRead(content, available, Some(actual_message_length)) ELSE
    LET buf == message_type_buf.bytes \o message_length_buf.bytes \o content.bytes IN
    Returned(Message_try_from(Reader_new(buf)), buf, Some(actual_message_length))

-----------------------------------------------------------------------------
(* The backend's side of the transport *)

\* how many frames the backend writes
MaxFrames == 3

\* a frame as the backend writes it: the type byte, the declared length, the
\* body; `message` is what the backend meant by it (None: nothing the client
\* can decode)
Frame(tag, length, body, message) ==
    [tag |-> tag, length |-> length, body |-> body, message |-> message,
     bytes |-> <<tag>> \o i32_to_be_bytes(length) \o body]

\* the declared length counts itself and the body
WellFramed(frame) ==
    /\ frame.length >= 4
    /\ frame.length = 4 + Len(frame.body)

KeyDataBody == i32_to_be_bytes(7) \o i32_to_be_bytes(9)

BackendFrames ==
    { Frame(90, 5, <<73>>, Some(ReadyForQuery)),
      Frame(73, 4, <<>>, Some(EmptyQuery)),
      Frame(75, 12, KeyDataBody, Some(KeyData)),
      Frame(67, 6, <<83, 0>>, Some([type |-> "CommandComplete", tag |-> <<83>>])),
      \* a type byte the client does not know, without and with a body
      Frame(88, 4, <<>>, None),
      Frame(88, 5, <<1>>, None),
      \* a DataRow announcing one field and carrying none
      Frame(68, 6, <<0, 1>>, None),
      \* headers whose declared length is below 4; a body byte may follow
      Frame(90, 3, <<>>, None),
      Frame(90, 0, <<73>>, None),
      Frame(68, -1, <<>>, None),
      \* a declared length that is one more than what follows
      Frame(90, 6, <<73>>, None) }

\* the backend writes one more frame
BackendWrite(frame) ==
    /\ ~eof
    /\ Len(frames) < MaxFrames
    /\ wire' = wire \o frame.bytes
    /\ frames' = Append(frames, frame)
    /\ UNCHANGED <<offset, eof, outcomes, looping, input, output>>
    /\ UNCHANGED connectionVars

\* the backend closes the connection
BackendClose ==
    /\ ~eof
    /\ eof' = TRUE
    /\ UNCHANGED <<wire, offset, frames, outcomes, looping, input, output>>
    /\ UNCHANGED connectionVars

\* the bytes the client has not taken yet
Unread == SubSeq(wire, offset + 1, Len(wire))

\* let response = self.read_message().await?  in the loops of create and query
ReadMessageCall ==
    /\ looping
    /\ \E outcome \in {read_message(Unread, eof)} :
       /\ outcome.status # "Pending"
       /\ offset' = offset + outcome.consumed
       /\ outcomes' = Append(outcomes, outcome)
       /\ looping' = (outcome.status = "Ok")
    /\ UNCHANGED <<wire, eof, frames, input, output>>
    /\ UNCHANGED connectionVars

ReadNext ==
    \/ \E frame \in BackendFrames : BackendWrite(frame)
    \/ BackendClose
    \/ ReadMessageCall

ReadSpec == Init /\ [][ReadNext]_vars

----------------------------------------------------------------------------
(* util::Writer *)

\* i32::to_le_bytes: the byte order of the binary FromSql parsers
i32_to_le_bytes(value) ==
    << value % 256, (value \div 256) % 256, (value \div 65536) % 256,
       (value \div 16777216) % 256 >>

\* a Writer is its buffer
Writer_new == <<>>

Writer_skip(buffer, n) == buffer \o [i \in 1..n |-> 0]

Writer_write_u8(buffer, value) == Append(buffer, value)

Writer_write_bytes(buffer, bytes) == buffer \o bytes

Writer_write_i16(buffer, value) == buffer \o i16_to_be_bytes(value)

Writer_write_i32(buffer, value) == buffer \o i32_to_be_bytes(value)

\* the four bytes are put in at the position and what follows moves back
Writer_write_i32_at_inserting(buffer, value, position) ==
    IF Len(buffer) < position + 4
    THEN [ok |-> FALSE, error |-> "UnexpectedEof", buffer |-> buffer]
    ELSE [ok |-> TRUE,
          buffer |-> SubSeq(buffer, 1, position) \o i32_to_be_bytes(value)
                       \o SubSeq(buffer, position + 1, Len(buffer))]

\* the value is written in the byte order of the host
Writer_write_i32_at_le(buffer, value, position) ==
    IF Len(buffer) < position + 4
    THEN [ok |-> FALSE, error |-> "UnexpectedEof", buffer |-> buffer]
    ELSE [ok |-> TRUE,
          buffer |-> SubSeq(buffer, 1, position) \o i32_to_le_bytes(value)
                       \o SubSeq(buffer, position + 5, Len(buffer))]

Writer_write_i32_at(buffer, value, position) ==
    IF Len(buffer) < position + 4
    THEN [ok |-> FALSE, error |-> "UnexpectedEof", buffer |-> buffer]
    ELSE [ok |-> TRUE,
          buffer |-> SubSeq(buffer, 1, position) \o i32_to_be_bytes(value)
                       \o SubSeq(buffer, position + 5, Len(buffer))]

Writer_write_cstring(buffer, string) ==
    Writer_write_u8(Writer_write_bytes(buffer, string), 0)

\* self.buffer.truncate(n): the first n bytes stay
Truncate(buffer, n) == IF n < Len(buffer) THEN SubSeq(buffer, 1, n) ELSE buffer

\* let n = n.max(self.buffer.len()); self.buffer.truncate(n)
Writer_backtrack(buffer, n) ==
    Truncate(buffer, IF n > Len(buffer) THEN n ELSE Len(buffer))

Writer_try_backtrack(buffer, n) ==
    IF n > Len(buffer)
    THEN [ok |-> FALSE, error |-> "UnexpectedEof", buffer |-> buffer]
    ELSE [ok |-> TRUE, buffer |-> Truncate(buffer, n)]

Writer_len(buffer) == Len(buffer)

Writer_finish(buffer) == buffer

-----------------------------------------------------------------------------
(* protocol::message::client: the Startup message *)

\* const PROTOCOL_VERSION: i32 = 0x00030000
PROTOCOL_VERSION == 196608

\* the string literals of the encoder, as their UTF-8 bytes
Literal ==
    [user |-> <<117, 115, 101, 114>>,
     database |-> <<100, 97, 116, 97, 98, 97, 115, 101>>,
     options |-> <<111, 112, 116, 105, 111, 110, 115>>]

\* Startup::new: the options map gets the keys that were given
Startup_new(user, database, server_options) ==
    LET with_database ==
            IF database.some THEN Insert(EmptyMap, "database", database.value)
            ELSE EmptyMap
        options ==
            IF server_options.some
            THEN Insert(with_database, "options", server_options.value)
            ELSE with_database
    IN [user |-> user, options |-> options]

\* the orders in which a HashMap may hand out its keys
IterationOrders(map) ==
    { order \in [1..Cardinality(DOMAIN map) -> DOMAIN map] :
        \A i, j \in DOMAIN order : i # j => order[i] # order[j] }

\* for (key, value) in &message.options { write_cstring(key); write_cstring(value) }
RECURSIVE WriteOptions(_, _, _)
WriteOptions(buffer, options, order) ==
    IF order = <<>> THEN buffer
    ELSE WriteOptions(
             Writer_write_cstring(Writer_write_cstring(buffer, Literal[Head(order)]),
                                  options[Head(order)]),
             options, Tail(order))

\* impl From<&Startup> for Vec<u8>, with the map iterated in `order`;
\* a failed write_i32_at makes .expect(..) panic
Startup_into_bytes(message, order) ==
    LET reserved == Writer_skip(Writer_new, 4)
        version == Writer_write_i32(reserved, PROTOCOL_VERSION)
        user_key == Writer_write_cstring(version, Literal.user)
        user == Writer_write_cstring(user_key, message.user)
        options == WriteOptions(user, message.options, order)
        terminated == Writer_write_u8(options, 0)
        length == Writer_write_i32_at(terminated, Writer_len(terminated), 0)
    IN IF length.ok
       THEN [kind |-> "Encoded", bytes |-> Writer_finish(length.buffer),
             order |-> order]
       ELSE [kind |-> "Panic"]

-----------------------------------------------------------------------------
(* protocol::message::client: the Query message *)

\* writer.write_i32_at(..).expect(..); writer.finish()
EncodedOrPanic(written) ==
    IF written.ok
    THEN [kind |-> "Encoded", bytes |-> Writer_finish(written.buffer)]
    ELSE [kind |-> "Panic"]

\* Query::new
Query_new(query) == [query |-> query]

\* the length field counts the type byte as well
LengthOfAll(length) == length

\* writer.len() as i32 - 1: the type byte is not counted
LengthWithoutType(length) == length - 1

\* impl From<&Query> for Vec<u8>; a failed write_i32_at makes .expect(..) panic
Query_into_bytes(message) ==
    LET type == Writer_write_u8(Writer_new, 81)
        reserved == Writer_skip(type, 4)
        query == Writer_write_cstring(reserved, message.query)
    IN EncodedOrPanic(Writer_write_i32_at(query, LengthWithoutType(Writer_len(query)), 1))

-----------------------------------------------------------------------------
(* protocol::message::parsing: FromSql, and the lookups of Row *)

\* i32::from_le_bytes: two's complement, least significant byte first
i32_from_le_bytes(bytes) ==
    (IF bytes[4] >= 128 THEN bytes[4] - 256 ELSE bytes[4]) * 16777216
        + bytes[3] * 65536 + bytes[2] * 256 + bytes[1]

\* Ok(value) and Err(error) of a parser or of get_and_parse
Parsed(value) == [ok |-> TRUE, value |-> value]
ParseFailed(error) == [ok |-> FALSE, error |-> error]

\* the ASCII digits '0'..'9'
IsDigit(byte) == byte >= 48 /\ byte <= 57

\* the number a non-empty string of digits denotes; the texts of the model
\* have fewer than ten digits, so none overflows an i32
RECURSIVE DigitsValue(_, _)
DigitsValue(digits, value) ==
    IF digits = <<>> THEN value
    ELSE DigitsValue(Tail(digits), value * 10 + (Head(digits) - 48))

\* str::parse::<i32>: an optional sign '+' or '-', then one digit or more
str_parse_i32(text) ==
    LET signed == text # <<>> /\ Head(text) \in {43, 45}
        digits == IF signed THEN Tail(text) ELSE text
    IN IF digits = <<>> \/ \E i \in 1..Len(digits) : ~IsDigit(digits[i])
       THEN ParseFailed("ParseIntError")
       ELSE IF signed /\ Head(text) = 45
            THEN Parsed(0 - DigitsValue(digits, 0))
            ELSE Parsed(DigitsValue(digits, 0))

\* T::from_text for T = &str, String and i32
from_text(type, text) ==
    IF ~IsUtf8(text) THEN ParseFailed("Utf8Error")
    ELSE IF type = "i32" THEN str_parse_i32(text)
    ELSE Parsed(text)

\* impl FromSql for i32: Ok(i32::from_le_bytes(binary.try_into()?))
i32_from_binary(binary) ==
    IF Len(binary) # 4 THEN ParseFailed("TryFromSliceError")
    ELSE Parsed(i32_from_le_bytes(binary))

\* T::from_binary for T = &str, String and i32
from_binary(type, binary) ==
    IF type = "i32" THEN i32_from_binary(binary)
    ELSE IF ~IsUtf8(binary) THEN ParseFailed("Utf8Error")
    ELSE Parsed(binary)

\* the positions (counted from 0) of the fields with this name
FieldsNamed(description, name) ==
    { i \in 0..(Len(description.fields) - 1) : description.fields[i + 1].name = name }

\* the last field with this name
field_index_of_last(description, name) ==
    LET named == FieldsNamed(description, name) IN
    IF named = {} THEN None
    ELSE Some(CHOOSE i \in named : \A j \in named : j <= i)

\* RowDescription::field_index: self.fields.iter().position(|field| field.name == name)
field_index(description, name) ==
    LET named == FieldsNamed(description, name) IN
    IF named = {} THEN None
    ELSE Some(CHOOSE i \in named : \A j \in named : i <= j)

\* <[T]>::get(index)
Slice_get(slice, index) ==
    IF index < Len(slice) THEN Some(slice[index + 1]) ELSE None

\* the first value of the row, whatever the name
Row_get_first(row, name) == Slice_get(row.fields, 0)

\* Row::get: the `?` on field_index, then self.fields.get(index)
Row_get(row, name) ==
    LET index == field_index(row.metadata, name) IN
    IF ~index.some THEN None ELSE Slice_get(row.fields, index.value)

\* every value goes to the binary parser
ParseAsBinary(format_code, type, data) == from_binary(type, data)

\* every value goes to the text parser
ParseAsText(format_code, type, data) == from_text(type, data)

\* match format_code { Binary => data.parse_binary(), Text => data.parse_text() }
ParseAs(format_code, type, data) ==
    IF format_code = "Binary" THEN from_binary(type, data) ELSE from_text(type, data)

\* Row::get_and_parse::<T>; the unwrap of the second lookup panics on None,
\* and so does self.metadata.fields[field_index] beyond the fields
Row_get_and_parse(row, name, type) ==
    LET data == Row_get(row, name)
        index == field_index(row.metadata, name)
    IN IF ~data.some THEN ParseFailed([kind |-> "FieldNotFound", name |-> name])
       ELSE IF ~index.some THEN Panic
       ELSE IF index.value >= Len(row.metadata.fields) THEN Panic
       ELSE ParseAs(row.metadata.fields[index.value + 1].format_code, type, data.value)

-----------------------------------------------------------------------------
(* The arguments the codec is applied to *)

\* fields per row, descriptors per row description, mechanisms per list
MaxFields == 2

\* characters per string of a Startup message
MaxString == 2

\* the sequences over `values` of length 0..n
RECURSIVE SeqsUpTo(_, _)
SeqsUpTo(values, n) ==
    IF n = 0 THEN {<<>>}
    ELSE LET shorter == SeqsUpTo(values, n - 1) IN
         shorter \cup { Append(seq, value) : seq \in shorter, value \in values }

\* the concatenation of a sequence of byte strings
RECURSIVE Flatten(_)
Flatten(parts) ==
    IF parts = <<>> THEN <<>> ELSE Head(parts) \o Flatten(Tail(parts))

CString(string) == string \o <<0>>

\* the buffer read_message hands to the decoder for a frame with this body
FrameBytes(tag, body) == <<tag>> \o i32_to_be_bytes(4 + Len(body)) \o body

\* a body with its last `cut` bytes missing
CutShort(body, cut) == SubSeq(body, 1, Len(body) - cut)

\* a field of a DataRow on the wire: the length (-1: NULL) and the bytes
WireFields ==
    { [length |-> -1, bytes |-> <<>>],
      [length |-> 0, bytes |-> <<>>],
      [length |-> 1, bytes |-> <<49>>],
      [length |-> 2, bytes |-> <<0, 255>>] }

WireFieldBytes(field) == i32_to_be_bytes(field.length) \o field.bytes

\* a DataRow frame announcing `count` fields and carrying `fields`
DataRowInput(count, fields, cut) ==
    LET body == i16_to_be_bytes(count)
                  \o Flatten([i \in 1..Len(fields) |-> WireFieldBytes(fields[i])])
    IN [kind |-> "Frame", tag |-> 68, count |-> count, fields |-> fields,
        cut |-> cut, bytes |-> FrameBytes(68, CutShort(body, cut))]

DataRowInputs ==
    { DataRowInput(count, fields, cut) :
        count \in {-32768, -1} \cup 0..(MaxFields + 1),
        fields \in SeqsUpTo(WireFields, MaxFields),
        cut \in {0, 1} }

\* a field descriptor on the wire
WireDescriptors ==
    { [name |-> name, table_oid |-> table.oid, attribute_number |-> table.column,
       format_code |-> format_code] :
        name \in {<<97>>, <<105, 100>>},
        table \in {[oid |-> 0, column |-> 0], [oid |-> 16384, column |-> 2]},
        format_code \in {-1, 0, 1, 2} }

\* the type is int4: oid 23, size 4, modifier -1
WireDescriptorBytes(descriptor) ==
    CString(descriptor.name) \o i32_to_be_bytes(descriptor.table_oid)
      \o i16_to_be_bytes(descriptor.attribute_number)
      \o i32_to_be_bytes(23) \o i16_to_be_bytes(4) \o i32_to_be_bytes(-1)
      \o i16_to_be_bytes(descriptor.format_code)

\* a RowDescription frame announcing `count` descriptors and carrying `fields`
RowDescriptionInput(count, fields) ==
    LET body == i16_to_be_bytes(count)
                  \o Flatten([i \in 1..Len(fields) |-> WireDescriptorBytes(fields[i])])
    IN [kind |-> "Frame", tag |-> 84, count |-> count, fields |-> fields,
        cut |-> 0, bytes |-> FrameBytes(84, body)]

RowDescriptionInputs ==
    { RowDescriptionInput(count, fields) :
        count \in {-32768, -1} \cup 0..MaxFields,
        fields \in SeqsUpTo(WireDescriptors, MaxFields) }

\* a BackendKeyData frame: the two integers and what follows them in the body
KeyDataInputs ==
    { [kind |-> "Frame", tag |-> 75, process_id |-> process_id,
       secret_key |-> secret_key, rest |-> rest,
       bytes |-> FrameBytes(75, i32_to_be_bytes(process_id)
                   \o i32_to_be_bytes(secret_key) \o rest)] :
        process_id \in {7, -1}, secret_key \in {9, 16909060},
        rest \in {<<>>, <<0>>, <<0, 0, 0, 1>>} }

\* an Authentication frame: the authType and the rest of the body
AuthenticationInput(auth_type, rest) ==
    [kind |-> "Frame", tag |-> 82, auth_type |-> auth_type, rest |-> rest,
     bytes |-> FrameBytes(82, i32_to_be_bytes(auth_type) \o rest)]

\* the mechanism names of an AuthenticationSASL body
MechanismNames == {<<80>>, <<83, 67>>}

\* an AuthenticationSASL frame: the names, each NUL-terminated, then what follows
SaslInput(mechanisms, rest) ==
    [kind |-> "Frame", tag |-> 82, auth_type |-> 10, mechanisms |-> mechanisms,
     rest |-> rest,
     bytes |-> FrameBytes(82, i32_to_be_bytes(10)
                 \o Flatten([i \in 1..Len(mechanisms) |-> CString(mechanisms[i])])
                 \o rest)]

AuthenticationInputs ==
    { AuthenticationInput(auth_type, rest) :
        auth_type \in {-1, 0, 1, 5, 11, 12, 13},
        rest \in {<<>>, <<0>>, <<1>>, <<110, 0, 255>>} }
    \cup
    { SaslInput(mechanisms, rest) :
        mechanisms \in SeqsUpTo(MechanismNames, MaxFields),
        \* no terminator, the terminator, the terminator and more bytes
        rest \in {<<>>, <<0>>, <<0, 80, 0>>} }

\* the UTF-8 encodings of 'p' and of e with an acute accent
Characters == {<<112>>, <<195, 169>>}

\* the strings of at most MaxString characters, as their bytes
Strings == { Flatten(characters) : characters \in SeqsUpTo(Characters, MaxString) }

Options == {None} \cup { Some(string) : string \in Strings }

\* Startup::new(user, database, server_options) with a non-empty user
StartupInputs ==
    { [kind |-> "Startup", message |-> Startup_new(user, database, server_options)] :
        user \in Strings \ {<<>>}, database \in Options, server_options \in Options }

\* bytes per buffer handed to a Reader
MaxBuffer == 4

\* NUL, 'A', and the two bytes of e with an acute accent: alone or in the
\* wrong order the last two are not UTF-8
BufferBytes == {0, 65, 169, 195}

\* a Reader somewhere in a buffer
Readers ==
    { [buffer |-> buffer, position |-> position] :
        buffer \in SeqsUpTo(BufferBytes, MaxBuffer), position \in 0..MaxBuffer }

\* the methods of Reader with their arguments
ReaderMethods ==
    { [method |-> method, n |-> n, value |-> 0] :
        method \in {"skip", "ensure_remaining", "ensure_remaining_exact", "peek_bytes",
                    "read_bytes", "read_bytes_const", "read_remaining_bytes_exact",
                    "backtrack"},
        n \in 0..2 }
    \cup
    { [method |-> method, n |-> 0, value |-> value] :
        method \in {"expect_u8", "expect_i32"}, value \in {0, 65} }
    \cup
    { [method |-> method, n |-> 0, value |-> 0] :
        method \in {"peek_u8", "read_u8", "read_remaining_bytes", "read_i16",
                    "peek_i32", "read_i32", "read_cstring", "finish"} }

\* a method called on a Reader whose position lies within its buffer
ReaderInputs ==
    { [kind |-> "Reader", call |-> method, reader |-> reader] :
        method \in ReaderMethods,
        reader \in { r \in Readers : r.position <= Len(r.buffer) } }

\* the buffer of a Writer: long enough for an i32 with bytes on both sides
WriterBuffers == SeqsUpTo({7, 65}, MaxBuffer + 2)

\* 1, -2 and 0x01020304
WriterValues == {1, -2, 16909060}

\* the methods of Writer with their arguments
WriterMethods ==
    { [method |-> method, n |-> n, value |-> 0, bytes |-> <<>>] :
        method \in {"skip", "backtrack", "try_backtrack"}, n \in 0..2 }
    \cup
    { [method |-> method, n |-> 0, value |-> value, bytes |-> <<>>] :
        method \in {"write_u8", "write_i16", "write_i32"}, value \in {1, 65} }
    \cup
    { [method |-> method, n |-> 0, value |-> 0, bytes |-> bytes] :
        method \in {"write_bytes", "write_cstring"}, bytes \in {<<>>, <<65, 66>>} }
    \cup
    { [method |-> "write_i32_at", n |-> position, value |-> value, bytes |-> <<>>] :
        position \in 0..MaxBuffer, value \in WriterValues }

\* a method called on a Writer
WriterInputs ==
    { [kind |-> "Writer", call |-> method, buffer |-> buffer] :
        method \in WriterMethods, buffer \in WriterBuffers }

\* the column names of a row description: "a" and "b"
ColumnNames == {<<97>>, <<98>>}

\* the names looked up: "a", "b" and "c"
LookupNames == ColumnNames \cup {<<99>>}

\* what get and get_and_parse read of a field description
Columns ==
    { [name |-> name, format_code |-> format_code] :
        name \in ColumnNames, format_code \in {"Text", "Binary"} }

\* the Data of a row: "1", "x" and the four bytes 00 00 00 01
RowValues == {<<49>>, <<120>>, <<0, 0, 0, 1>>}

\* a Row as query builds it: the shared description and the fields of one
\* DataRow, which query does not compare in number with the description
Rows ==
    { [metadata |-> [fields |-> columns], fields |-> values] :
        columns \in SeqsUpTo(Columns, MaxFields),
        values \in SeqsUpTo(RowValues, MaxFields) }

\* the target types of get_and_parse
SqlTypes == {"i32", "String"}

\* row.get(name) and row.get_and_parse::<T>(name)
RowInputs ==
    { [kind |-> "Get", row |-> row, name |-> name] :
        row \in Rows, name \in LookupNames }
    \cup
    { [kind |-> "GetAndParse", row |-> row, name |-> name, type |-> type] :
        row \in Rows, name \in LookupNames, type \in SqlTypes }

\* the values handed to a parser: texts, four-byte values, other lengths, and
\* bytes that are not UTF-8
SqlValues ==
    RowValues \cup
    { <<>>, <<45, 49, 50>>, <<43, 55>>, <<45>>, <<49, 120>>, <<195, 169>>, <<255>>,
      <<1, 0, 0, 0>>, <<255, 255, 255, 254>>, <<1, 2, 3, 4>>, <<0, 0, 0, 0, 1>> }

\* T::from_text(data) and T::from_binary(data)
FromSqlInputs ==
    { [kind |-> "FromSql", type |-> type, format_code |-> format_code, data |-> data] :
        type \in SqlTypes, format_code \in {"Text", "Binary"}, data \in SqlValues }

\* Query::new(query), the empty query included
QueryInputs == { [kind |-> "Query", message |-> Query_new(query)] : query \in Strings }

CodecInit ==
    /\ ConnectionInit
    /\ TransportInit
    /\ \/ input \in DataRowInputs
       \/ input \in RowDescriptionInputs
       \/ input \in AuthenticationInputs
       \/ input \in KeyDataInputs
       \/ input \in StartupInputs
       \/ input \in QueryInputs
       \/ input \in ReaderInputs
       \/ input \in WriterInputs
       \/ input \in RowInputs
       \/ input \in FromSqlInputs
    /\ output = NoOutput

\* server::Message::try_from(util::Reader::new(&buf))
DecodeMessage ==
    /\ input.kind = "Frame"
    /\ output = NoOutput
    /\ output' = [kind |-> "Decoded",
                  result |-> Message_try_from(Reader_new(input.bytes))]
    /\ UNCHANGED <<wire, offset, eof, frames, outcomes, looping, input>>
    /\ UNCHANGED connectionVars

\* let message_bytes: Vec<u8> = (&message).into()
EncodeStartup ==
    /\ input.kind = "Startup"
    /\ output = NoOutput
    /\ \E order \in IterationOrders(input.message.options) :
         output' = Startup_into_bytes(input.message, order)
    /\ UNCHANGED <<wire, offset, eof, frames, outcomes, looping, input>>
    /\ UNCHANGED connectionVars

\* self.send_message(&query_message): Vec<u8>::from(&message)
EncodeQuery ==
    /\ input.kind = "Query"
    /\ output = NoOutput
    /\ output' = Query_into_bytes(input.message)
    /\ UNCHANGED <<wire, offset, eof, frames, outcomes, looping, input>>
    /\ UNCHANGED connectionVars

\* reader.<method>(..)
Reader_call(method, reader) ==
    CASE method.method = "skip" -> Reader_skip(reader, method.n)
      [] method.method = "ensure_remaining" -> Reader_ensure_remaining(reader, method.n)
      [] method.method = "ensure_remaining_exact" ->
           Reader_ensure_remaining_exact(reader, method.n)
      [] method.method = "peek_u8" -> Reader_peek_u8(reader)
      [] method.method = "peek_bytes" -> Reader_peek_bytes(reader, method.n)
      [] method.method = "expect_u8" -> Reader_expect_u8(reader, method.value)
      [] method.method = "read_u8" -> Reader_read_u8(reader)
      [] method.method = "read_bytes" -> Reader_read_bytes(reader, method.n)
      [] method.method = "read_bytes_const" -> Reader_read_bytes_const(reader, method.n)
      [] method.method = "read_remaining_bytes" -> Reader_read_remaining_bytes(reader)
      [] method.method = "read_remaining_bytes_exact" ->
           Reader_read_remaining_bytes_exact(reader, method.n)
      [] method.method = "read_i16" -> Reader_read_i16(reader)
      [] method.method = "peek_i32" -> Reader_peek_i32(reader)
      [] method.method = "read_i32" -> Reader_read_i32(reader)
      [] method.method = "expect_i32" -> Reader_expect_i32(reader, method.value)
      [] method.method = "read_cstring" -> Reader_read_cstring(reader)
      [] method.method = "backtrack" -> Reader_backtrack(reader, method.n)
      [] method.method = "finish" -> Reader_finish(reader)

\* one method of Reader called by a decoder
ReaderCall ==
    /\ input.kind = "Reader"
    /\ output = NoOutput
    /\ output' = [kind |-> "Returned", result |-> Reader_call(input.call, input.reader)]
    /\ UNCHANGED <<wire, offset, eof, frames, outcomes, looping, input>>
    /\ UNCHANGED connectionVars

\* Ok(()) of a Writer method, with the buffer as the call leaves it
Wrote(buffer) == [ok |-> TRUE, buffer |-> buffer]

\* writer.<method>(..)
Writer_call(method, buffer) ==
    CASE method.method = "skip" -> Wrote(Writer_skip(buffer, method.n))
      [] method.method = "write_u8" -> Wrote(Writer_write_u8(buffer, method.value))
      [] method.method = "write_bytes" -> Wrote(Writer_write_bytes(buffer, method.bytes))
      [] method.method = "write_i16" -> Wrote(Writer_write_i16(buffer, method.value))
      [] method.method = "write_i32" -> Wrote(Writer_write_i32(buffer, method.value))
      [] method.method = "write_i32_at" ->
           Writer_write_i32_at(buffer, method.value, method.n)
      [] method.method = "write_cstring" ->
           Wrote(Writer_write_cstring(buffer, method.bytes))
      [] method.method = "backtrack" -> Wrote(Writer_backtrack(buffer, method.n))
      [] method.method = "try_backtrack" -> Writer_try_backtrack(buffer, method.n)

\* one method of Writer called by an encoder
WriterCall ==
    /\ input.kind = "Writer"
    /\ output = NoOutput
    /\ output' = [kind |-> "Written", result |-> Writer_call(input.call, input.buffer)]
    /\ UNCHANGED <<wire, offset, eof, frames, outcomes, looping, input>>
    /\ UNCHANGED connectionVars

\* row.get(name)
RowGet ==
    /\ input.kind = "Get"
    /\ output = NoOutput
    /\ output' = [kind |-> "Got", result |-> Row_get(input.row, input.name)]
    /\ UNCHANGED <<wire, offset, eof, frames, outcomes, looping, input>>
    /\ UNCHANGED connectionVars

\* row.get_and_parse::<T>(name)
RowGetAndParse ==
    /\ input.kind = "GetAndParse"
    /\ output = NoOutput
    /\ output' = [kind |-> "Parsed",
                  result |-> Row_get_and_parse(input.row, input.name, input.type)]
    /\ UNCHANGED <<wire, offset, eof, frames, outcomes, looping, input>>
    /\ UNCHANGED connectionVars

\* data.parse_text::<T>() and data.parse_binary::<T>()
FromSqlCall ==
    /\ input.kind = "FromSql"
    /\ output = NoOutput
    /\ output' = [kind |-> "Parsed",
                  result |-> ParseAs(input.format_code, input.type, input.data)]
    /\ UNCHANGED <<wire, offset, eof, frames, outcomes, looping, input>>
    /\ UNCHANGED connectionVars

CodecNext ==
    \/ RowGet
    \/ RowGetAndParse
    \/ FromSqlCall
    \/ WriterCall
    \/ ReaderCall
    \/ DecodeMessage
    \/ EncodeStartup
    \/ EncodeQuery

CodecSpec == CodecInit /\ [][CodecNext]_vars

----------------------------------------------------------------------------
(* Properties *)

Last(seq) == seq[Len(seq)]
Front(seq) == SubSeq(seq, 1, Len(seq) - 1)
IsRowDescription(message) == message.type = "RowDescription"
IsDataRow(message) == message.type = "DataRow"
IsError(message) == message.type = "Error"

\* the RowDescription / DataRow messages read during the current call, in order
ReceivedDescriptions == SelectSeq(received, IsRowDescription)
ReceivedRows == SelectSeq(received, IsDataRow)

\* the query call has returned after reading CommandComplete
QueryCompleted ==
    /\ call = "query"
    /\ pc = "idle"
    /\ received # <<>>
    /\ Last(received).type = "CommandComplete"

\* C1: when a backend Error arrives during query, query returns an error value
\* carrying the Error's field map; the process is not aborted.
C1_ServerErrorIsReturned ==
    (call = "query" /\ received # <<>> /\ Last(received).type = "Error")
        => /\ pc = "idle"
           /\ result = [kind |-> "Err", error |-> "ServerError",
                        fields |-> Last(received).fields]

\* C2: a query started while ready_to_query is false fails with a protocol-state
\* error (and sends nothing).
C2_QueryRequiresReady ==
    [][(calls' # calls /\ ~ready_to_query)
          => (pc' = "idle" /\ result' = Err("ProtocolState") /\ sent' = sent)]_vars

\* C3: during create every message read before the first ReadyForQuery is in the
\* response buffer, in arrival order; the first ReadyForQuery sets ready_to_query,
\* is not buffered, and is the last message create reads.
C3_HandshakeBuffersUntilReady ==
    call = "create" =>
        /\ pc = "create_loop" =>
              /\ response_buffer = received
              /\ ~ready_to_query
              /\ \A i \in 1..Len(received) : received[i] # ReadyForQuery
        /\ pc = "idle" =>
              /\ received # <<>>
              /\ Last(received) = ReadyForQuery
              /\ response_buffer = Front(received)
              /\ \A i \in 1..(Len(received) - 1) : received[i] # ReadyForQuery
              /\ ready_to_query
              /\ reads = Len(received)
              /\ result = Ok("Connection")

C3_Witness ==
    /\ call = "create"
    /\ pc = "idle"
    /\ Len(response_buffer) = 2
    /\ response_buffer[1] # response_buffer[2]

\* C4: a backend Error read during the handshake ends create with an error; create
\* neither goes on reading nor returns a Connection.
C4_HandshakeErrorIsFatal ==
    (call = "create" /\ \E i \in 1..Len(received) : IsError(received[i]))
        => /\ pc = "create_failed"
           /\ result.kind = "Err"
           /\ IsError(Last(received))

\* C5: every step leaves the response buffer unchanged or appends the message it
\* has just read at the tail.
C5_BufferIsFifo ==
    [][\/ response_buffer' = response_buffer
       \/ /\ reads' = reads + 1
          /\ response_buffer' = Append(response_buffer, response')]_vars

C5_Witness ==
    /\ call = "query"
    /\ pc = "query_loop"
    /\ Len(response_buffer) = 2
    /\ response_buffer[1] = Authentication
    /\ response_buffer[2] = response
    /\ response # Authentication

\* C6: a successful query that read one RowDescription and k DataRows returns k
\* Rows in the DataRows' order, the i-th with the fields of the i-th DataRow, all
\* holding the same handle to one allocation of that RowDescription.
C6_RowsShareOneDescription ==
    (call = "query" /\ result.kind = "Ok" /\ Len(ReceivedDescriptions) = 1)
        => /\ Len(result.value) = Len(ReceivedRows)
           /\ Len(heap) = 1
           /\ heap[1] = ReceivedDescriptions[1].fields
           /\ \A i \in 1..Len(result.value) :
                 /\ result.value[i].fields = ReceivedRows[i].fields
                 /\ result.value[i].metadata = 1

C6_Witness ==
    /\ call = "query"
    /\ result.kind = "Ok"
    /\ Len(ReceivedDescriptions) = 1
    /\ Len(result.value) = 2
    /\ result.value[1].fields # result.value[2].fields

\* C7: CommandComplete with no RowDescription and no DataRow before it makes query
\* return success with no rows.
C7_NoRowsNoDescriptionIsEmpty ==
    (QueryCompleted /\ ReceivedDescriptions = <<>> /\ ReceivedRows = <<>>)
        => result = Ok(<<>>)

\* C8: CommandComplete after at least one DataRow and no RowDescription makes query
\* fail with MissingRowDescription, returning no rows.
C8_RowsWithoutDescriptionFail ==
    (QueryCompleted /\ ReceivedDescriptions = <<>> /\ ReceivedRows # <<>>)
        => result = Err("MissingRowDescription")

C8_Witness ==
    /\ QueryCompleted
    /\ ReceivedDescriptions = <<>>
    /\ Len(ReceivedRows) = 2

\* C9: a second RowDescription within one query call makes the call fail at once,
\* and a returned row is paired with the description its DataRow arrived under.
C9_SecondDescriptionIsError ==
    (call = "query" /\ Len(ReceivedDescriptions) >= 2)
        => /\ pc = "idle"
           /\ result.kind = "Err"
           /\ Len(ReceivedDescriptions) = 2
           /\ IsRowDescription(Last(received))

\* C10: once a query call has failed, no later query call on the connection sends
\* a Query message or returns rows.
C10_FailedConnectionStaysClosed ==
    [][(call = "query" /\ pc = "idle" /\ result.kind = "Err")
          => (sent' = sent /\ result'.kind # "Ok")]_vars

-----------------------------------------------------------------------------
(* Properties of read_message *)

\* the number of bytes the first k frames occupy on the wire
RECURSIVE FrameBoundary(_)
FrameBoundary(k) ==
    IF k = 0 THEN 0 ELSE FrameBoundary(k - 1) + Len(frames[k].bytes)

\* the calls of read_message that found a frame to read
FramesRead == 1..(IF Len(outcomes) < Len(frames) THEN Len(outcomes) ELSE Len(frames))

\* the frames before the k-th one declare the length they have
WellFramedBefore(k) == \A j \in 1..(k - 1) : WellFramed(frames[j])

\* C11: on a stream of frames that declare the length L >= 4 they have, the
\* k-th call of read_message consumes the 1 + L bytes of the k-th frame, so it
\* stops on the frame boundary, and what it decodes is the k-th frame
C11_ReadConsumesOneFrame ==
    \A k \in FramesRead :
        (WellFramedBefore(k) /\ WellFramed(frames[k])) =>
            /\ outcomes[k].consumed = 1 + frames[k].length
            /\ (k = Len(outcomes) => offset = FrameBoundary(k))
            /\ frames[k].message # None =>
                   /\ outcomes[k].status = "Ok"
                   /\ outcomes[k].message = frames[k].message.value

\* three frames of different lengths, the shortest with L = 4, read one by one
C11_Witness ==
    /\ Len(frames) = 3
    /\ Len(outcomes) = 3
    /\ \A k \in 1..3 : outcomes[k].status = "Ok"
    /\ frames[1].length = 4
    /\ frames[2].length = 12
    /\ frames[3].length = 5

\* C12: a header declaring a length below 4, negative lengths included, makes
\* read_message fail with a decode error after the 5 header bytes: it reads no
\* body byte and allocates no buffer
C12_SmallLengthFailsAfterHeader ==
    \A k \in FramesRead :
        (WellFramedBefore(k) /\ frames[k].length < 4) =>
            /\ outcomes[k] = CodecFailure("UnexpectedValue", HEADER_LENGTH, None)
            /\ k = Len(outcomes)
            /\ offset = FrameBoundary(k - 1) + HEADER_LENGTH

\* a negative length and a length of 0 followed by a byte that stays unread
C12_Witness ==
    \/ /\ Len(frames) = 1
       /\ Len(outcomes) = 1
       /\ frames[1].length = -1
       /\ outcomes[1].status = "CodecError"
    \/ /\ Len(frames) = 2
       /\ Len(outcomes) = 2
       /\ frames[2].length = 0
       /\ outcomes[2].status = "CodecError"
       /\ offset < Len(wire)

\* C13: a frame whose type byte is none of the known ones makes read_message
\* return the decode error UnexpectedValue, never a message, and the read loop
\* returns that error instead of going on to the next frame
C13_UnknownTypeIsAnError ==
    \A k \in FramesRead :
        (WellFramedBefore(k) /\ WellFramed(frames[k])
            /\ frames[k].tag \notin MessageTypes) =>
            /\ outcomes[k].status = "CodecError"
            /\ outcomes[k].error = "UnexpectedValue"
            /\ k = Len(outcomes)
            /\ ~looping

\* an unknown type byte read while a further frame waits on the wire
C13_Witness ==
    /\ Len(frames) = 3
    /\ Len(outcomes) = 2
    /\ frames[2].tag = 88
    /\ outcomes[2].status = "CodecError"
    /\ offset = FrameBoundary(2)

-----------------------------------------------------------------------------
(* Properties of the handshake's KeyData *)

IsKeyData(message) == message.type = "KeyData"

\* the KeyData messages read during the current call, in order
ReceivedKeyData == SelectSeq(received, IsKeyData)

\* C14: after a successful create, key_data holds the KeyData the server sent
\* during the handshake, and is None only if none was received
C14_KeyDataIsCaptured ==
    (call = "create" /\ pc = "idle" /\ result = Ok("Connection")) =>
        IF ReceivedKeyData = <<>>
        THEN key_data = None
        ELSE key_data = Some([process_id |-> Last(ReceivedKeyData).process_id,
                              secret_key |-> Last(ReceivedKeyData).secret_key])

-----------------------------------------------------------------------------
(* Properties of the decoders *)

\* the frame in `input` has been decoded
DecodedFrame(tag) ==
    /\ input.kind = "Frame"
    /\ input.tag = tag
    /\ output.kind = "Decoded"

\* the body carries the fields its count announces, all of them whole
Complete == input.count = Len(input.fields) /\ input.cut = 0

\* the body ends before the fields its count announces
Truncated ==
    \/ input.count > Len(input.fields)
    \/ input.count = Len(input.fields) /\ input.cut > 0

\* C15: in a decoded DataRow, a field sent with length -1 (NULL) and a field
\* sent with length 0 (empty) are different Data values
C15_NullDiffersFromEmpty ==
    (DecodedFrame(68) /\ Complete /\ output.result.ok) =>
        \A i, j \in 1..Len(input.fields) :
            (input.fields[i].length = -1 /\ input.fields[j].length = 0) =>
                output.result.value.fields[i] # output.result.value.fields[j]

\* a Data value that is the bytes of no field sent with a length >= 0
IsNull(data) ==
    \A field \in WireFields : field.length >= 0 => data # field.bytes

\* C16: a DataRow frame with count N >= 0 and N fields decodes to N Data
\* values in wire order, the i-th being the i-th field's bytes, or NULL for
\* length -1; a body that ends before the announced fields fails to decode
C16_DataRowDecodesItsFields ==
    DecodedFrame(68) =>
        /\ Complete =>
              /\ output.result.ok
              /\ Len(output.result.value.fields) = input.count
              /\ \A i \in 1..Len(input.fields) :
                    IF input.fields[i].length = -1
                    THEN IsNull(output.result.value.fields[i])
                    ELSE output.result.value.fields[i] = input.fields[i].bytes
        /\ Truncated => ~output.result.ok

\* what C16 says of the rows without a NULL field, and of truncated bodies
DataRowWithoutNullDecodesItsFields ==
    DecodedFrame(68) =>
        /\ Complete =>
              /\ output.result.ok
              /\ Len(output.result.value.fields) = input.count
              /\ \A i \in 1..Len(input.fields) :
                    input.fields[i].length # -1 =>
                        output.result.value.fields[i] = input.fields[i].bytes
        /\ Truncated => ~output.result.ok

\* the reader right after the 16-bit count: the type byte, the length, the count
AfterCount == [buffer |-> input.bytes, position |-> 7]

\* C17: a RowDescription or DataRow frame with a negative count decodes to the
\* error UnexpectedValue; no container is returned and the reader stands right
\* after the count, so no field has been read
C17_NegativeCountIsRejected ==
    ((DecodedFrame(84) \/ DecodedFrame(68)) /\ input.count < 0
        /\ Len(input.bytes) >= 7) =>
        output.result = Fail("UnexpectedValue", AfterCount)

\* a negative count followed by fields that could have been read
C17_Witness ==
    /\ DecodedFrame(84) \/ DecodedFrame(68)
    /\ input.count = -1
    /\ Len(input.fields) = 2
    /\ input.cut = 0
    /\ ~output.result.ok

FormatCodes == {0, 1}

FormatCodeName(format_code) == IF format_code = 0 THEN "Text" ELSE "Binary"

\* C18: a RowDescription decodes iff every descriptor has format code 0 or 1;
\* then 0 has become Text and 1 Binary; one descriptor with another code makes
\* the whole RowDescription fail with UnexpectedValue
C18_FormatCodeIsTextOrBinary ==
    (DecodedFrame(84) /\ Complete) =>
        IF \A i \in 1..Len(input.fields) : input.fields[i].format_code \in FormatCodes
        THEN /\ output.result.ok
             /\ Len(output.result.value.fields) = Len(input.fields)
             /\ \A i \in 1..Len(input.fields) :
                    output.result.value.fields[i].format_code
                        = FormatCodeName(input.fields[i].format_code)
        ELSE /\ ~output.result.ok
             /\ output.result.error = "UnexpectedValue"

\* a Binary descriptor followed by one whose format code is 2
C18_Witness ==
    /\ DecodedFrame(84)
    /\ Complete
    /\ Len(input.fields) = 2
    /\ input.fields[1].format_code = 1
    /\ input.fields[2].format_code = 2
    /\ ~output.result.ok

\* C19: an 'R' frame decodes by its authType: 0 to Ok if the body ends there
\* and to an error if bytes follow; 10 to Sasl with the mechanism names in wire
\* order up to the bare NUL; 11 to SaslContinue and 12 to SaslFinal with all
\* remaining bytes; every other authType to the error UnexpectedValue
C19_AuthenticationByType ==
    DecodedFrame(82) =>
        CASE input.auth_type = 0 ->
               IF input.rest = <<>>
               THEN /\ output.result.ok
                    /\ output.result.value = [type |-> "Authentication", auth |-> "Ok"]
               ELSE ~output.result.ok
          [] input.auth_type = 10 ->
               IF input.rest = <<>>
               THEN ~output.result.ok
               ELSE /\ output.result.ok
                    /\ output.result.value =
                         [type |-> "Authentication", auth |-> "Sasl",
                          mechanisms |-> input.mechanisms]
          [] input.auth_type = 11 ->
               /\ output.result.ok
               /\ output.result.value =
                    [type |-> "Authentication", auth |-> "SaslContinue",
                     data |-> input.rest]
          [] input.auth_type = 12 ->
               /\ output.result.ok
               /\ output.result.value =
                    [type |-> "Authentication", auth |-> "SaslFinal",
                     data |-> input.rest]
          [] OTHER ->
               /\ ~output.result.ok
               /\ output.result.error = "UnexpectedValue"

\* authType 0 followed by a byte, which is an error
C19_Witness ==
    /\ DecodedFrame(82)
    /\ input.auth_type = 0
    /\ input.rest = <<0>>
    /\ ~output.result.ok

-----------------------------------------------------------------------------
(* Properties of the encoders *)

\* "user", the user, and each option's key and value, as C strings
Parameters(message, order) ==
    CString(Literal.user) \o CString(message.user)
      \o Flatten([i \in 1..Len(order) |->
                    CString(Literal[order[i]]) \o CString(message.options[order[i]])])

\* C20: an encoded Startup message starts with its own total length as a
\* big-endian i32, goes on with the big-endian protocol version 0x00030000,
\* and ends with one NUL after the key/value C strings
C20_StartupIsFramed ==
    (input.kind = "Startup" /\ output # NoOutput) =>
        /\ output.kind = "Encoded"
        /\ Len(output.bytes) > 8
        /\ i32_from_be_bytes(SubSeq(output.bytes, 1, 4)) = Len(output.bytes)
        /\ SubSeq(output.bytes, 5, 8) = <<0, 3, 0, 0>>
        /\ SubSeq(output.bytes, 9, Len(output.bytes))
             = Parameters(input.message, output.order) \o <<0>>

\* a Startup message with a database and options, the options written first
C20_Witness ==
    /\ input.kind = "Startup"
    /\ output.kind = "Encoded"
    /\ Len(output.order) = 2
    /\ output.order[1] = "options"
    /\ Len(input.message.user) = 2

\* C21: an encoded Query message is the byte 'Q', then the big-endian length
\* of everything but that byte, then the query text and one NUL
C21_QueryIsFramed ==
    (input.kind = "Query" /\ output # NoOutput) =>
        /\ output.kind = "Encoded"
        /\ output.bytes[1] = 81
        /\ i32_from_be_bytes(SubSeq(output.bytes, 2, 5)) = Len(output.bytes) - 1
        /\ SubSeq(output.bytes, 6, Len(output.bytes)) = input.message.query \o <<0>>

\* a query text of two characters, one of them two bytes long
C21_Witness ==
    /\ input.kind = "Query"
    /\ output.kind = "Encoded"
    /\ Len(input.message.query) = 3

-----------------------------------------------------------------------------
(* Properties of util::Reader *)

\* the method of Reader in `input` has returned
ReaderReturned == input.kind = "Reader" /\ output.kind = "Returned"

\* the methods that take &self
PeekMethods ==
    {"peek_u8", "peek_bytes", "peek_i32", "expect_u8", "expect_i32",
     "ensure_remaining", "ensure_remaining_exact"}

\* C22: a Reader method that fails leaves the position where it was, and the
\* peek and expect methods leave it there when they succeed as well
C22_FailedReadKeepsPosition ==
    ReaderReturned =>
        /\ ~output.result.ok => output.result.reader = input.reader
        /\ input.call.method \in PeekMethods => output.result.reader = input.reader

\* a read of four bytes that fails one byte into a buffer of four
C22_Witness ==
    /\ ReaderReturned
    /\ input.call.method = "read_i32"
    /\ input.reader.position = 1
    /\ Len(input.reader.buffer) = 4
    /\ ~output.result.ok

\* the positions (counted from 1) of the NUL bytes not yet read
UnreadNuls ==
    { i \in (input.reader.position + 1)..Len(input.reader.buffer) :
        input.reader.buffer[i] = 0 }

FirstNul == CHOOSE i \in UnreadNuls : \A j \in UnreadNuls : i <= j

\* the bytes from the position up to the first NUL
BeforeNul == SubSeq(input.reader.buffer, input.reader.position + 1, FirstNul - 1)

\* C23: read_cstring with a NUL ahead fails with the UTF-8 error when the bytes
\* before the NUL are not UTF-8; otherwise it returns those bytes and leaves
\* the position just past the NUL
C23_CStringUtf8Error ==
    (ReaderReturned /\ input.call.method = "read_cstring" /\ UnreadNuls # {}) =>
        IF IsUtf8(BeforeNul)
        THEN /\ output.result.ok
             /\ output.result.value = BeforeNul
             /\ output.result.reader.position = FirstNul
        ELSE /\ ~output.result.ok
             /\ output.result.error = "Utf8Error"

-----------------------------------------------------------------------------
(* Properties of util::Writer *)

\* the method of Writer in `input` has returned
WriterReturned == input.kind = "Writer" /\ output.kind = "Written"

\* the methods that write at the end of the buffer
AppendMethods ==
    {"skip", "write_u8", "write_bytes", "write_i16", "write_i32", "write_cstring"}

\* C24: write_i32_at(value, position) with position + 4 within the buffer
\* overwrites those four bytes with the big-endian value and changes neither
\* the length nor any other byte; beyond the buffer it fails and changes
\* nothing. The other write methods only append
C24_WriteAtOverwritesFourBytes ==
    WriterReturned =>
        /\ input.call.method = "write_i32_at" =>
              IF input.call.n + 4 <= Len(input.buffer)
              THEN /\ output.result.ok
                   /\ Len(output.result.buffer) = Len(input.buffer)
                   /\ \A i \in 1..Len(input.buffer) :
                         output.result.buffer[i] =
                           IF i > input.call.n /\ i <= input.call.n + 4
                           THEN i32_to_be_bytes(input.call.value)[i - input.call.n]
                           ELSE input.buffer[i]
              ELSE /\ ~output.result.ok
                   /\ output.result.error = "UnexpectedEof"
                   /\ output.result.buffer = input.buffer
        /\ input.call.method \in AppendMethods =>
              /\ output.result.ok
              /\ Len(output.result.buffer) >= Len(input.buffer)
              /\ SubSeq(output.result.buffer, 1, Len(input.buffer)) = input.buffer

\* 0x01020304 written over bytes 1..5 of a buffer of six
C24_Witness ==
    /\ WriterReturned
    /\ input.call.method = "write_i32_at"
    /\ input.call.n = 1
    /\ input.call.value = 16909060
    /\ Len(input.buffer) = 6
    /\ output.result.buffer = <<input.buffer[1], 1, 2, 3, 4, input.buffer[6]>>

-----------------------------------------------------------------------------
(* Rows and values *)

\* row.get(name) has returned
RowGot == input.kind = "Get" /\ output # NoOutput

\* the position, counted from 1, of the first field of the row's description
\* with the name looked up; 0 when no field has it
FirstNamed ==
    LET fields == input.row.metadata.fields
        named == { i \in 1..Len(fields) : fields[i].name = input.name }
    IN IF named = {} THEN 0 ELSE CHOOSE i \in named : \A j \in named : i <= j

\* C25: Row.get(name) returns the Data at the index of the first field of the
\* row's description with that name, the lowest index among duplicates, and
\* none when no field has that name. The row holds the fields of one DataRow;
\* where it holds no value at that index the lookup returns none as well
C25_GetReturnsFirstMatch ==
    RowGot =>
        output.result =
            IF FirstNamed = 0 THEN None
            ELSE IF FirstNamed <= Len(input.row.fields)
                 THEN Some(input.row.fields[FirstNamed])
                 ELSE None

\* two fields of the same name with different values: the first is returned
C25_Witness ==
    /\ RowGot
    /\ Len(input.row.metadata.fields) = 2
    /\ Len(input.row.fields) = 2
    /\ input.row.metadata.fields[1].name = input.name
    /\ input.row.metadata.fields[2].name = input.name
    /\ input.row.fields[1] # input.row.fields[2]
    /\ output.result = Some(input.row.fields[1])

\* row.get_and_parse::<T>(name) has returned
RowParsed == input.kind = "GetAndParse" /\ output # NoOutput

\* C26: Row.get_and_parse<T>(name) fails with FieldNotFound(name) when no
\* field has that name (and when get(name) is none for a row shorter than its
\* description); otherwise it applies T's binary parser to the Data of that
\* field if the field's format code is Binary and T's text parser if it is
\* Text, and returns the parser's result, value or error
C26_GetAndParseDispatches ==
    RowParsed =>
        output.result =
            IF FirstNamed = 0 \/ FirstNamed > Len(input.row.fields)
            THEN ParseFailed([kind |-> "FieldNotFound", name |-> input.name])
            ELSE IF input.row.metadata.fields[FirstNamed].format_code = "Binary"
                 THEN from_binary(input.type, input.row.fields[FirstNamed])
                 ELSE from_text(input.type, input.row.fields[FirstNamed])

\* a Binary field of four bytes read as an i32, which the text parser rejects,
\* and in the same row a missing name
C26_Witness ==
    /\ RowParsed
    /\ input.type = "i32"
    /\ FirstNamed = 2
    /\ Len(input.row.fields) = 2
    /\ input.row.metadata.fields[2].format_code = "Binary"
    /\ input.row.metadata.fields[1].format_code = "Text"
    /\ input.row.fields[2] = <<0, 0, 0, 1>>
    /\ output.result.ok
    /\ ~from_text("i32", input.row.fields[2]).ok

\* the binary parser of i32 has returned
BinaryI32Parsed ==
    /\ input.kind = "FromSql"
    /\ input.type = "i32"
    /\ input.format_code = "Binary"
    /\ output # NoOutput

\* C27: a Binary value of four bytes parses as the big-endian i32 that
\* Reader.read_i32 reads from the same bytes (00 00 00 01 is 1); a value of
\* any other length is a parse error
C27_BinaryI32IsBigEndian ==
    BinaryI32Parsed =>
        IF Len(input.data) = 4
        THEN /\ output.result.ok
             /\ output.result.value = Reader_read_i32(Reader_new(input.data)).value
             /\ input.data = <<0, 0, 0, 1>> => output.result.value = 1
        ELSE ~output.result.ok

-----------------------------------------------------------------------------
(* The connection against a PostgreSQL backend *)

\* Authentication::Sasl with the mechanisms the backend offers
AuthenticationSasl ==
    [type |-> "Authentication", auth |-> "Sasl", mechanisms |-> <<"SCRAM-SHA-256">>]

\* the description of the result of SELECT 1: one text column named ?column?
SelectOneDescription == RowDescription(<< FieldDescription("?column?", "Text") >>)

\* the row of the result of SELECT 1: the text "1"
SelectOneRow == DataRow(<< <<49>> >>)

\* what the backend sends next after a Startup message, given what the
\* connection has read of it: an authentication request, then any number of
\* ParameterStatus, one KeyData and ReadyForQuery. After a SASL request it
\* sends nothing until the frontend has answered
ServerHandshake ==
    IF received = <<>> THEN {Authentication, AuthenticationSasl}
    ELSE IF Last(received) \in {Authentication, ParameterStatus}
         THEN {ParameterStatus, KeyData}
         ELSE IF Last(received) = KeyData THEN {ReadyForQuery}
              ELSE {}

\* the backend sends at most this many rows in answer to a query
MaxRows == 2

\* what the connection has read of the response, the notices left out
Unnoticed == SelectSeq(received, LAMBDA message : message # Notice)

\* the first message of the response to a query: the description of the result
\* of a SELECT, or EmptyQuery when the query string was empty
ResponseStart == {SelectOneDescription, EmptyQuery}

\* the only message read so far is the ReadyForQuery that ended the response
\* to the query before
ReadLeftover == calls > 1 /\ Unnoticed = <<ReadyForQuery>>

\* what the connection finds in the transport during a query: the
\* ReadyForQuery that ended the response to the query before, if there was one,
\* then either the description of the result, its rows, CommandComplete (and
\* a ReadyForQuery the call does not get to), or EmptyQuery and ReadyForQuery
ServerResponse ==
    IF Unnoticed = <<>>
    THEN IF calls > 1 THEN {ReadyForQuery} ELSE ResponseStart
    ELSE IF ReadLeftover THEN ResponseStart
         ELSE IF Last(Unnoticed) = EmptyQuery THEN {ReadyForQuery}
              ELSE IF Last(Unnoticed) \in {ReadyForQuery, CommandComplete} THEN {}
                   ELSE {CommandComplete}
                        \cup (IF Len(data_rows) < MaxRows THEN {SelectOneRow} ELSE {})

\* the next message of the response; before any of them the backend may send
\* a Notice, once per query
ServerAnswer ==
    ServerResponse
        \cup (IF ServerResponse # {} /\ Unnoticed = received THEN {Notice} ELSE {})

\* what read_message returns when the backend sends one of `messages`, every
\* frame well-formed: the message, or a NetworkError when the transport fails
ReadFromServer(messages) ==
    IF stream = "open"
    THEN { [ok |-> TRUE, message |-> m] : m \in messages }
         \cup { [ok |-> FALSE, error |-> "NetworkError"] }
    ELSE { [ok |-> FALSE, error |-> "NetworkError"] }

\* a turn of create's loop against the backend
CreateReadFromServer == CreateLoop(ReadFromServer(ServerHandshake))

\* a turn of query's loop against the backend
QueryReadFromServer == QueryLoop(ReadFromServer(ServerAnswer))

ServerNext ==
    \/ CreateConnect
    \/ CreateSend
    \/ CreateReadFromServer
    \/ QuerySend
    \/ QueryReadFromServer

ServerSpec == Init /\ [][ServerNext]_vars

\* what read_message returns of the messages the backend has sent, as long as
\* the transport works
Delivered(messages) ==
    IF stream = "open" THEN { [ok |-> TRUE, message |-> m] : m \in messages } ELSE {}

\* the read of create's loop returns a message the backend has sent
CreateDelivered == CreateLoop(Delivered(ServerHandshake))

\* the read of query's loop returns a message the backend has sent
QueryDelivered == QueryLoop(Delivered(ServerAnswer))

\* a message the backend has sent is read in the end: the awaited read_message
\* completes when the bytes are there. Nothing makes the transport fail
LiveServerSpec ==
    ServerSpec /\ WF_vars(CreateDelivered) /\ WF_vars(QueryDelivered)

\* Authentication::Ok, zero or more ParameterStatus, one KeyData, ReadyForQuery
IsHandshake(messages) ==
    /\ Len(messages) >= 3
    /\ messages[1] = Authentication
    /\ \A i \in 2..(Len(messages) - 2) : messages[i] = ParameterStatus
    /\ messages[Len(messages) - 1] = KeyData
    /\ messages[Len(messages)] = ReadyForQuery

\* the Row behind a returned row, with the description it shares
RowOf(row) == [metadata |-> [fields |-> heap[row.metadata]], fields |-> row.fields]

\* C28: a backend that answers Startup with Authentication::Ok, any number of
\* ParameterStatus, one KeyData and ReadyForQuery makes create return a ready
\* connection; a query answered with the description of one text field
\* ?column?, one DataRow "1" and CommandComplete returns exactly one Row whose
\* get_and_parse::<i32>("?column?") is 1
C28_SimpleQueryEndToEnd ==
    /\ (call = "create" /\ IsHandshake(received)) =>
          /\ pc = "idle"
          /\ result = Ok("Connection")
          /\ ready_to_query
    /\ (call = "query" /\ received = <<SelectOneDescription, SelectOneRow, CommandComplete>>) =>
          /\ pc = "idle"
          /\ result.kind = "Ok"
          /\ Len(result.value) = 1
          /\ Row_get_and_parse(RowOf(result.value[1]), "?column?", "i32") = Parsed(1)

\* the query has returned its row on a connection whose handshake had a
\* ParameterStatus
C28_Witness ==
    /\ call = "query"
    /\ calls = 1
    /\ received = <<SelectOneDescription, SelectOneRow, CommandComplete>>
    /\ response_buffer = <<Authentication, ParameterStatus, KeyData>>
    /\ ready_to_query
    /\ result.kind = "Ok"

\* C29: when create reads Authentication Sasl or SaslContinue, the connection
\* writes the authenticator's response before it waits for the next message of
\* the backend
C29_SaslIsAnswered ==
    (/\ call = "create"
     /\ pc = "create_loop"
     /\ received # <<>>
     /\ Last(received).type = "Authentication"
     /\ Last(received).auth \in {"Sasl", "SaslContinue"})
        => Last(sent) = "SASLResponse"

\* C30: ready_to_query is false from the moment query has sent its message
\* until the ReadyForQuery that ends the response has been read, so that a
\* query never finds a message of an earlier response in the transport
C30_ReadyFollowsQuery ==
    /\ pc = "query_loop" => ~ready_to_query
    /\ (call = "query" /\ received # <<>>) => received[1] # ReadyForQuery
    /\ (call = "query" /\ pc = "idle" /\ result.kind = "Ok") =>
          Last(received) = ReadyForQuery

-----------------------------------------------------------------------------
(* Backtracking a Writer, expecting a constant from a Reader *)

\* the bytes of the input buffer that backtrack(n) is to keep
KeptByBacktrack ==
    LET removed == IF input.call.n < Len(input.buffer)
                   THEN input.call.n ELSE Len(input.buffer)
    IN SubSeq(input.buffer, 1, Len(input.buffer) - removed)

\* C37: Writer.backtrack(n) removes the last min(n, len) bytes of the buffer
\* and leaves the first len - min(n, len) bytes as they were
C37_BacktrackRemovesLastBytes ==
    (WriterReturned /\ input.call.method = "backtrack") =>
        /\ output.result.ok
        /\ output.result.buffer = KeptByBacktrack

\* the bytes of the input reader from its position on
Remaining ==
    SubSeq(input.reader.buffer, input.reader.position + 1, Len(input.reader.buffer))

\* the reader holds enough bytes for the expected constant, and another value
Mismatch ==
    \/ /\ input.call.method = "expect_u8"
       /\ Len(Remaining) >= 1
       /\ Remaining[1] # input.call.value
    \/ /\ input.call.method = "expect_i32"
       /\ Len(Remaining) >= 4
       /\ i32_from_be_bytes(SubSeq(Remaining, 1, 4)) # input.call.value

\* C38: expect_u8(v) and expect_i32(v) on a buffer that holds enough bytes but
\* another value fail with UnexpectedByte or UnexpectedValue, not with
\* UnexpectedEof
C38_MismatchIsNotEof ==
    (ReaderReturned /\ Mismatch) =>
        /\ ~output.result.ok
        /\ output.result.error \in {"UnexpectedByte", "UnexpectedValue"}

\* C36: get_and_parse never panics: whenever get(name) returns a value, the
\* second lookup field_index(name) finds an index too, and that index lies
\* within metadata.fields
C36_GetAndParseNeverPanics ==
    RowParsed =>
        /\ output.result # Panic
        /\ Row_get(input.row, input.name).some =>
              /\ field_index(input.row.metadata, input.name).some
              /\ field_index(input.row.metadata, input.name).value
                    < Len(input.row.metadata.fields)

\* get_and_parse on the second of two fields, past both lookups
C36_Witness ==
    /\ RowParsed
    /\ Row_get(input.row, input.name).some
    /\ field_index(input.row.metadata, input.name) = Some(1)
    /\ output.result # Panic
    /\ output.result.ok

\* C35: a backend frame decodes successfully only if decoding consumes its
\* whole body: a frame with bytes left after the last field of its variant is
\* a decode error
C35_DecodingConsumesTheBody ==
    (input.kind = "Frame" /\ output.kind = "Decoded" /\ output.result.ok) =>
        output.result.reader.position = Len(input.bytes)

-----------------------------------------------------------------------------
(* The rows and the buffer after a query *)

\* query has returned rows
QueryReturnedRows == call = "query" /\ pc = "idle" /\ result.kind = "Ok"

\* C34: every Row returned by query has as many fields as its RowDescription
\* has field descriptions, so that get(name) returns a value for every name
\* of the row's metadata
C34_RowsMatchTheirDescription ==
    QueryReturnedRows =>
        \A i \in 1..Len(result.value) :
            LET row == RowOf(result.value[i]) IN
            /\ Len(row.fields) = Len(row.metadata.fields)
            /\ \A j \in 1..Len(row.metadata.fields) :
                  Row_get(row, row.metadata.fields[j].name).some

\* C33: a call of query writes one Query frame and flushes it before it reads
\* any message of the backend, and writes nothing more until it returns; a
\* call whose send fails reads nothing
C33_QueryWritesOneFrame ==
    [][/\ calls' # calls =>
             \/ /\ pc' = "query_loop"
                /\ sent' = Append(sent, "Query")
                /\ received' = <<>>
                /\ reads' = reads
             \/ /\ pc' = "idle"
                /\ result'.kind = "Err"
                /\ sent' = sent
                /\ reads' = reads
       /\ pc = "query_loop" => sent' = sent]_vars

\* the second query is reading its response: one Startup and two Query frames
\* have been written
C33_Witness ==
    /\ call = "query"
    /\ calls = 2
    /\ pc = "query_loop"
    /\ received # <<>>
    /\ sent = <<"Startup", "Query", "Query">>

-----------------------------------------------------------------------------
(* ReadyForQuery at the end of a response *)

\* C31: ReadyForQuery is never stored in the response buffer, after create
\* and any number of queries each answered with RowDescription, DataRows,
\* CommandComplete and ReadyForQuery (no query was answered with EmptyQuery,
\* a message that query buffers)
C31_ReadyForQueryIsNotBuffered ==
    (\A i \in 1..Len(response_buffer) : response_buffer[i] # EmptyQuery) =>
        \A i \in 1..Len(response_buffer) : response_buffer[i] # ReadyForQuery

\* query has read the ReadyForQuery that ends the response to its own message
ResponseEnded ==
    /\ pc = "query_loop"
    /\ Unnoticed # <<>>
    /\ Last(Unnoticed) = ReadyForQuery
    /\ ~ReadLeftover

\* C32: query returns once the backend has ended its response with
\* ReadyForQuery, also when the response is EmptyQuery, ReadyForQuery
C32_QueryReturnsAfterReadyForQuery == ResponseEnded ~> pc # "query_loop"

\* a query that has read the description or a row of a result returns
QueryWithRowsReturns ==
    (/\ pc = "query_loop"
     /\ Unnoticed # <<>>
     /\ Last(Unnoticed).type \in {"RowDescription", "DataRow"}) ~> pc # "query_loop"

====
